---- MODULE Spec2Model ----
(***************************************************************************)
(* EasyLang: the tokenizer (lexer.ts), the recursive-descent parser        *)
(* (parser.ts), the tree-walking interpreter (interpreter.ts) and the two  *)
(* callers that drive them (the REPL component and App.executeCode).       *)
(*                                                                         *)
(* A JavaScript string is a TLA+ string; s.charAt(i) is SubSeq(s,i+1,i+1). *)
(* A JavaScript number is a rational <<n, d>> in lowest terms with d > 0;  *)
(* d = 0 encodes NaN (<<0,0>>) and the infinities (<<1,0>>, <<-1,0>>).     *)
(* A thrown exception is a result record whose kind is not "ok".           *)
(***************************************************************************)
EXTENDS Integers, Sequences, FiniteSets, TLC

(***************************************************************************)
(* Characters and strings                                                  *)
(***************************************************************************)

NUL == "\\0"

Digits == {"0", "1", "2", "3", "4", "5", "6", "7", "8", "9"}

Letters ==
  {"a", "b", "c", "d", "e", "f", "g", "h", "i", "j", "k", "l", "m",
   "n", "o", "p", "q", "r", "s", "t", "u", "v", "w", "x", "y", "z",
   "A", "B", "C", "D", "E", "F", "G", "H", "I", "J", "K", "L", "M",
   "N", "O", "P", "Q", "R", "S", "T", "U", "V", "W", "X", "Y", "Z"}

Min(a, b) == IF a <= b THEN a ELSE b

Max(a, b) == IF a >= b THEN a ELSE b

\* String.prototype.charAt with a 0-based index; "" outside the string
charAt(s, i) == IF i >= 0 /\ i < Len(s) THEN SubSeq(s, i + 1, i + 1) ELSE ""

\* String.prototype.substring(a, b) for 0 <= a: the indices are clamped
substring(s, a, b) ==
  LET hi == Min(Max(b, 0), Len(s))
      lo == Min(Max(a, 0), Len(s))
  IN  IF lo >= hi THEN "" ELSE SubSeq(s, lo + 1, hi)

RECURSIVE repeat(_, _)
\* String.prototype.repeat
repeat(s, n) == IF n <= 0 THEN "" ELSE s \o repeat(s, n - 1)

(***************************************************************************)
(* Errors                                                                  *)
(***************************************************************************)

NoError == [thrown |-> FALSE, message |-> "", line |-> 0, column |-> 0, type |-> ""]

\* new EasyLangError(message, line, column): type defaults to 'SyntaxError'
EasyLangError(message, line, column) ==
  [thrown |-> TRUE, message |-> message, line |-> line, column |-> column,
   type |-> "SyntaxError"]

(***************************************************************************)
(* Lexer                                                                   *)
(***************************************************************************)

keywords ==
  [banao |-> "BANAO", sada |-> "SADA", agar |-> "AGAR", warna |-> "WARNA",
   dohrana |-> "DOHRANA", jab |-> "JAB_TAK", tak |-> "JAB_TAK",
   system |-> "SYSTEM", ka |-> "KA_SYSTEM", return |-> "RETURN",
   likho |-> "LIKHO", puchho |-> "PUCHHO", range |-> "RANGE", in |-> "IN",
   sach |-> "SACH", jhooth |-> "JHOOTH", aur |-> "AUR", ya |-> "YA",
   nahi |-> "NAHI"]

\* The Lexer object right after construction
Lexer(source) ==
  [source |-> source, tokens |-> <<>>, current |-> 0, line |-> 1,
   column |-> 1, indentStack |-> <<0>>, error |-> NoError]

isDigit(c) == c \in Digits

isAlpha(c) == c \in Letters \/ c = "_"

isAlphaNumeric(c) == isAlpha(c) \/ isDigit(c)

Lx_isAtEnd(L) == L.current >= Len(L.source)

\* advance(): the character it returns is charAt(L.source, L.current)
Lx_advance(L) == [L EXCEPT !.column = @ + 1, !.current = @ + 1]

Lx_peek(L) == IF Lx_isAtEnd(L) THEN NUL ELSE charAt(L.source, L.current)

Lx_peekNext(L) ==
  IF L.current + 1 >= Len(L.source) THEN NUL ELSE charAt(L.source, L.current + 1)

\* match(expected): TRUE exactly when the cursor moves
Lx_matches(L, expected) ==
  ~Lx_isAtEnd(L) /\ charAt(L.source, L.current) = expected

Lx_match(L, expected) ==
  IF Lx_matches(L, expected)
  THEN [L EXCEPT !.current = @ + 1, !.column = @ + 1]
  ELSE L

Lx_addToken(L, type, value) ==
  [L EXCEPT !.tokens =
     Append(@, [type |-> type, value |-> value,
                position |-> [line |-> L.line,
                              column |-> L.column - Len(value)]])]

Lx_throw(L, message, line, column) ==
  [L EXCEPT !.error = EasyLangError(message, line, column)]

Top(stack) == stack[Len(stack)]

Pop(stack) == SubSeq(stack, 1, Len(stack) - 1)

RECURSIVE Lx_countIndent_tabIsOne(_, _)
\* handleIndentation's counting loop with a tab counted as one unit
Lx_countIndent_tabIsOne(L, indent) ==
  IF ~Lx_isAtEnd(L) /\ (Lx_peek(L) = " " \/ Lx_peek(L) = "\t")
  THEN Lx_countIndent_tabIsOne(Lx_advance(L), indent + 1)
  ELSE <<L, indent>>

RECURSIVE Lx_countIndent(_, _)
\* handleIndentation, the counting loop: <<lexer, indent>>
Lx_countIndent(L, indent) ==
  IF ~Lx_isAtEnd(L) /\ (Lx_peek(L) = " " \/ Lx_peek(L) = "\t")
  THEN Lx_countIndent(Lx_advance(L),
                      IF Lx_peek(L) = " " THEN indent + 1 ELSE indent + 4)
  ELSE <<L, indent>>

RECURSIVE Lx_popIndents(_, _)
\* handleIndentation, the dedent loop
Lx_popIndents(L, indent) ==
  IF Len(L.indentStack) > 1 /\ Top(L.indentStack) > indent
  THEN Lx_popIndents(
         Lx_addToken([L EXCEPT !.indentStack = Pop(@)], "DEDENT", ""), indent)
  ELSE L

\* handleIndentation that pushes every width that differs from the top
Lx_handleIndentation_pushesAlways(L0) ==
  LET counted == Lx_countIndent([L0 EXCEPT !.current = @ - 1], 0)
      L == counted[1]
      indent == counted[2]
  IN  IF indent # Top(L.indentStack)
      THEN Lx_addToken([L EXCEPT !.indentStack = Append(@, indent)],
                       "INDENT", repeat(" ", indent))
      ELSE L

\* handleIndentation without its step back to the start of the line
Lx_handleIndentation_noStepBack(L0) ==
  LET startColumn == L0.column
      counted == Lx_countIndent(L0, 0)
      L == counted[1]
      indent == counted[2]
      currentIndent == Top(L.indentStack)
  IN  IF indent > currentIndent
      THEN Lx_addToken([L EXCEPT !.indentStack = Append(@, indent)],
                       "INDENT", repeat(" ", indent))
      ELSE IF indent < currentIndent
      THEN LET P == Lx_popIndents(L, indent)
           IN  IF Top(P.indentStack) # indent
               THEN Lx_throw(P, "Indentation error", P.line, startColumn)
               ELSE P
      ELSE L

Lx_handleIndentation(L0) ==
  LET back == [L0 EXCEPT !.current = @ - 1]
      startColumn == L0.column
      counted == Lx_countIndent(back, 0)
      L == counted[1]
      indent == counted[2]
      currentIndent == Top(L.indentStack)
  IN  IF indent > currentIndent
      THEN Lx_addToken([L EXCEPT !.indentStack = Append(@, indent)],
                       "INDENT", repeat(" ", indent))
      ELSE IF indent < currentIndent
      THEN LET P == Lx_popIndents(L, indent)
           IN  IF Top(P.indentStack) # indent
               THEN Lx_throw(P, "Indentation error", P.line, startColumn)
               ELSE P
      ELSE L

RECURSIVE Lx_stringBody(_)
\* string(), the loop up to the closing quote or the end of input
Lx_stringBody(L) ==
  IF Lx_peek(L) # "\"" /\ ~Lx_isAtEnd(L)
  THEN Lx_stringBody(
         Lx_advance(IF Lx_peek(L) = "\n"
                    THEN [L EXCEPT !.line = @ + 1, !.column = 1]
                    ELSE L))
  ELSE L

Lx_string(L0) ==
  LET start == L0.current - 1
      L == Lx_stringBody(L0)
  IN  IF Lx_isAtEnd(L)
      THEN Lx_throw(L, "Unterminated string", L.line, L.column)
      ELSE LET C == Lx_advance(L)
           IN  Lx_addToken(C, "STRING",
                           substring(C.source, start + 1, C.current - 1))

RECURSIVE Lx_digits(_)
Lx_digits(L) == IF isDigit(Lx_peek(L)) THEN Lx_digits(Lx_advance(L)) ELSE L

Lx_number(L0) ==
  LET start == L0.current - 1
      L == Lx_digits(L0)
      F == IF Lx_peek(L) = "." /\ isDigit(Lx_peekNext(L))
           THEN Lx_digits(Lx_advance(L))
           ELSE L
  IN  Lx_addToken(F, "NUMBER", substring(F.source, start, F.current))

RECURSIVE Lx_word(_)
Lx_word(L) == IF isAlphaNumeric(Lx_peek(L)) THEN Lx_word(Lx_advance(L)) ELSE L

Lx_identifier(L0) ==
  LET start == L0.current - 1
      L == Lx_word(L0)
      text == substring(L.source, start, L.current)
      plain == Lx_addToken(L, IF text \in DOMAIN keywords
                              THEN keywords[text] ELSE "IDENTIFIER", text)
      \* after advance() over the space; nextStart is the same position
      S == Lx_advance(L)
      nextStart == L.current + 1
  IN  IF text = "jab" /\ Lx_peek(L) = " "
      THEN IF substring(S.source, nextStart, nextStart + 3) = "tak"
           THEN Lx_addToken([S EXCEPT !.current = @ + 3, !.column = @ + 3],
                            "JAB_TAK", "jab tak")
           ELSE plain   \* current-- and column-- undo the advance()
      ELSE IF text = "ka" /\ Lx_peek(L) = " "
      THEN IF substring(S.source, nextStart, nextStart + 6) = "system"
           THEN Lx_addToken([S EXCEPT !.current = @ + 6, !.column = @ + 6],
                            "KA_SYSTEM", "ka system")
           ELSE plain
      ELSE plain

RECURSIVE Lx_comment(_)
Lx_comment(L) ==
  IF Lx_peek(L) # "\n" /\ ~Lx_isAtEnd(L) THEN Lx_comment(Lx_advance(L)) ELSE L

\* One-character tokens of scanToken's switch
SingleCharTokens ==
  [c \in {"+", "-", "/", "%", "(", ")", "{", "}", ",", ":"} |->
     CASE c = "+" -> "PLUS"
       [] c = "-" -> "MINUS"
       [] c = "/" -> "DIVIDE"
       [] c = "%" -> "MODULO"
       [] c = "(" -> "LEFT_PAREN"
       [] c = ")" -> "RIGHT_PAREN"
       [] c = "{" -> "LEFT_BRACE"
       [] c = "}" -> "RIGHT_BRACE"
       [] c = "," -> "COMMA"
       [] c = ":" -> "COLON"]

\* c followed by '=' is the token two, otherwise the token one (or an error)
Lx_oneOrTwo(L, second, twoType, twoText, oneType, oneText) ==
  IF Lx_matches(L, second)
  THEN Lx_addToken(Lx_match(L, second), twoType, twoText)
  ELSE Lx_addToken(L, oneType, oneText)

Lx_scanToken(L0) ==
  LET c == charAt(L0.source, L0.current)
      L == Lx_advance(L0)
  IN  CASE c \in {" ", "\r", "\t"} ->
             IF L.column = 2 THEN Lx_handleIndentation(L) ELSE L
        [] c = "\n" ->
             [Lx_addToken(L, "NEWLINE", "\n") EXCEPT !.line = @ + 1, !.column = 1]
        [] c \in DOMAIN SingleCharTokens ->
             Lx_addToken(L, SingleCharTokens[c], c)
        [] c = "*" -> Lx_oneOrTwo(L, "*", "POWER", "**", "MULTIPLY", "*")
        [] c = "=" -> Lx_oneOrTwo(L, "=", "EQUAL", "==", "ASSIGN", "=")
        [] c = "!" ->
             IF Lx_matches(L, "=")
             THEN Lx_addToken(Lx_match(L, "="), "NOT_EQUAL", "!=")
             ELSE Lx_throw(L, "Unexpected character", L.line, L.column)
        [] c = "<" -> Lx_oneOrTwo(L, "=", "LESS_EQUAL", "<=", "LESS_THAN", "<")
        [] c = ">" -> Lx_oneOrTwo(L, "=", "GREATER_EQUAL", ">=", "GREATER_THAN", ">")
        [] c = "\"" -> Lx_string(L)
        [] c = "#" -> Lx_comment(L)
        [] OTHER ->
             IF isDigit(c) THEN Lx_number(L)
             ELSE IF isAlpha(c) THEN Lx_identifier(L)
             ELSE Lx_throw(L, "Unexpected character: " \o c, L.line, L.column)

RECURSIVE Lx_scanAll(_)
\* tokenize(), the scanning loop; a thrown error ends it
Lx_scanAll(L) ==
  IF ~Lx_isAtEnd(L) /\ ~L.error.thrown THEN Lx_scanAll(Lx_scanToken(L)) ELSE L

\* tokenize() without its loop of final dedents
Lx_finalDedents_none(L) == L

RECURSIVE Lx_finalDedents(_)
Lx_finalDedents(L) ==
  IF Len(L.indentStack) > 1
  THEN Lx_finalDedents(
         Lx_addToken([L EXCEPT !.indentStack = Pop(@)], "DEDENT", ""))
  ELSE L

\* tokenize() run on a Lexer object: the object afterwards (its tokens are
\* the return value unless error.thrown)
Lx_tokenize(L0) ==
  LET L == Lx_scanAll(L0)
  IN  IF L.error.thrown THEN L
      ELSE Lx_addToken(Lx_finalDedents(L), "EOF", "")

(***************************************************************************)
(* Numbers                                                                 *)
(***************************************************************************)

Abs(n) == IF n < 0 THEN -n ELSE n

RECURSIVE Gcd(_, _)
Gcd(a, b) == IF b = 0 THEN a ELSE Gcd(b, a % b)

\* The number n/d in lowest terms; d = 0 gives NaN or an infinity
Rat(n, d) ==
  IF d = 0 THEN <<(IF n > 0 THEN 1 ELSE IF n < 0 THEN -1 ELSE 0), 0>>
  ELSE LET g == Gcd(Abs(n), Abs(d))
           s == IF d < 0 THEN -1 ELSE 1
       IN  <<(s * n) \div g, (s * d) \div g>>

Num(n) == <<n, 1>>

NaN == <<0, 0>>

isNaN(q) == q = NaN

isFinite(q) == q[2] # 0

RECURSIVE Pow10(_)
Pow10(k) == IF k <= 0 THEN 1 ELSE 10 * Pow10(k - 1)

DigitValue(c) ==
  CASE c = "0" -> 0 [] c = "1" -> 1 [] c = "2" -> 2 [] c = "3" -> 3
    [] c = "4" -> 4 [] c = "5" -> 5 [] c = "6" -> 6 [] c = "7" -> 7
    [] c = "8" -> 8 [] c = "9" -> 9

RECURSIVE ScanDigits(_, _, _)
\* The digits of s from 0-based index i on: <<their value, their count>>,
\* continuing the value acc
ScanDigits(s, i, acc) ==
  IF isDigit(charAt(s, i))
  THEN LET r == ScanDigits(s, i + 1, acc * 10 + DigitValue(charAt(s, i)))
       IN  <<r[1], r[2] + 1>>
  ELSE <<acc, 0>>

RECURSIVE SkipWhite(_, _)
SkipWhite(s, i) ==
  IF charAt(s, i) \in {" ", "\t", "\n", "\r"} THEN SkipWhite(s, i + 1) ELSE i

\* The global parseFloat: the longest prefix of the trimmed text that is a
\* decimal literal (sign, digits, fraction, exponent, or Infinity), else NaN
parseFloat(s) ==
  LET i0 == SkipWhite(s, 0)
      neg == charAt(s, i0) = "-"
      i1 == IF charAt(s, i0) \in {"+", "-"} THEN i0 + 1 ELSE i0
      sign == IF neg THEN -1 ELSE 1
      int == ScanDigits(s, i1, 0)
      i2 == i1 + int[2]
      hasDot == charAt(s, i2) = "."
      frac == IF hasDot THEN ScanDigits(s, i2 + 1, 0) ELSE <<0, 0>>
      i3 == IF hasDot THEN i2 + 1 + frac[2] ELSE i2
      hasE == charAt(s, i3) \in {"e", "E"}
      eneg == charAt(s, i3 + 1) = "-"
      i4 == IF charAt(s, i3 + 1) \in {"+", "-"} THEN i3 + 2 ELSE i3 + 1
      exp == IF hasE THEN ScanDigits(s, i4, 0) ELSE <<0, 0>>
      mant == Rat(int[1] * Pow10(frac[2]) + frac[1], Pow10(frac[2]))
  IN  IF substring(s, i1, i1 + 8) = "Infinity" THEN <<sign, 0>>
      ELSE IF int[2] = 0 /\ frac[2] = 0 THEN NaN
      ELSE IF exp[2] = 0 THEN Rat(sign * mant[1], mant[2])
      ELSE IF eneg THEN Rat(sign * mant[1], mant[2] * Pow10(exp[1]))
      ELSE Rat(sign * mant[1] * Pow10(exp[1]), mant[2])

(***************************************************************************)
(* Parser.  A parse method is an operator of the tokens T and the cursor   *)
(* cur (this.current); it yields [ok, node, cur, error]: the value and the *)
(* cursor afterwards, or the EasyLangError thrown and the cursor then.     *)
(***************************************************************************)

Undefined == "<undefined>"

PsOk(node, cur) == [ok |-> TRUE, node |-> node, cur |-> cur, error |-> NoError]

PsErr(error, cur) == [ok |-> FALSE, node |-> <<>>, cur |-> cur, error |-> error]

Ps_peek(T, cur) == T[cur + 1]

Ps_previous(T, cur) == T[cur]

Ps_isAtEnd(T, cur) == Ps_peek(T, cur).type = "EOF"

Ps_check(T, cur, type) == ~Ps_isAtEnd(T, cur) /\ Ps_peek(T, cur).type = type

\* advance(): the cursor afterwards
Ps_advance(T, cur) == IF ~Ps_isAtEnd(T, cur) THEN cur + 1 ELSE cur

\* match(...types): TRUE exactly when the cursor moves (by one)
Ps_match(T, cur, types) == \E t \in types : Ps_check(T, cur, t)

\* consume(type, message): the token consumed
Ps_consume(T, cur, type, message) ==
  IF Ps_check(T, cur, type)
  THEN PsOk(Ps_peek(T, cur), Ps_advance(T, cur))
  ELSE PsErr(EasyLangError(message, Ps_peek(T, cur).position.line,
                           Ps_peek(T, cur).position.column), cur)

\* getPosition(): the position of the token consumed last
Ps_getPosition(T, cur) == Ps_previous(T, cur).position

Ps_consumeNewlineAndIndent(T, cur) ==
  LET nl == Ps_consume(T, cur, "NEWLINE", "Expected newline")
  IN  IF ~nl.ok THEN nl
      ELSE IF Ps_check(T, nl.cur, "INDENT")
      THEN PsOk(<<>>, Ps_advance(T, nl.cur))
      ELSE PsErr(EasyLangError("Expected indentation",
                               Ps_peek(T, nl.cur).position.line,
                               Ps_peek(T, nl.cur).position.column), nl.cur)

StatementStarts ==
  {"BANAO", "SADA", "AGAR", "DOHRANA", "JAB_TAK", "SYSTEM", "RETURN", "LIKHO"}

RECURSIVE Ps_synchronizeLoop(_, _)
Ps_synchronizeLoop(T, cur) ==
  IF Ps_isAtEnd(T, cur) THEN cur
  ELSE IF Ps_previous(T, cur).type = "NEWLINE" THEN cur
  ELSE IF Ps_peek(T, cur).type \in StatementStarts THEN cur
  ELSE Ps_synchronizeLoop(T, Ps_advance(T, cur))

\* synchronize(): the cursor afterwards
Ps_synchronize(T, cur) == Ps_synchronizeLoop(T, Ps_advance(T, cur))

\* The operator tokens of the left-associative levels, loosest first
BinaryLevels ==
  << {"YA"}, {"AUR"}, {"EQUAL", "NOT_EQUAL"},
     {"GREATER_THAN", "GREATER_EQUAL", "LESS_THAN", "LESS_EQUAL"},
     {"MINUS", "PLUS"}, {"DIVIDE", "MULTIPLY", "MODULO"} >>

RECURSIVE Ps_statement(_, _)
RECURSIVE Ps_blockLoop(_, _, _, _)
RECURSIVE Ps_binary(_, _, _)
RECURSIVE Ps_binaryLoop(_, _, _, _)
RECURSIVE Ps_power(_, _)
RECURSIVE Ps_unary(_, _)
RECURSIVE Ps_callLoop(_, _, _)
RECURSIVE Ps_argumentsLoop(_, _, _)
RECURSIVE Ps_primary(_, _)

Ps_expression(T, cur) == Ps_binary(1, T, cur)

\* Each of logicalOr, logicalAnd, equality, comparison, term, factor:
\* an operand of the next level, then while (match(operators)) ...
Ps_binary(level, T, cur) ==
  LET first == IF level < Len(BinaryLevels)
               THEN Ps_binary(level + 1, T, cur)
               ELSE Ps_power(T, cur)
  IN  IF ~first.ok THEN first
      ELSE Ps_binaryLoop(level, T, first.node, first.cur)

Ps_binaryLoop(level, T, expr, cur) ==
  IF Ps_match(T, cur, BinaryLevels[level])
  THEN LET operator == Ps_peek(T, cur).value
           right == IF level < Len(BinaryLevels)
                    THEN Ps_binary(level + 1, T, cur + 1)
                    ELSE Ps_power(T, cur + 1)
       IN  IF ~right.ok THEN right
           ELSE Ps_binaryLoop(level, T,
                  [type |-> "BinaryExpression", left |-> expr,
                   operator |-> operator, right |-> right.node,
                   position |-> expr.position], right.cur)
  ELSE PsOk(expr, cur)

Ps_logicalOr(T, cur) == Ps_binary(1, T, cur)

Ps_logicalAnd(T, cur) == Ps_binary(2, T, cur)

Ps_equality(T, cur) == Ps_binary(3, T, cur)

Ps_comparison(T, cur) == Ps_binary(4, T, cur)

Ps_term(T, cur) == Ps_binary(5, T, cur)

Ps_factor(T, cur) == Ps_binary(6, T, cur)

\* power() with its right operand parsed by unary(), not by power() itself
Ps_power_notNested(T, cur) ==
  LET expr == Ps_unary(T, cur)
  IN  IF ~expr.ok THEN expr
      ELSE IF Ps_match(T, expr.cur, {"POWER"})
      THEN LET operator == Ps_peek(T, expr.cur).value
               right == Ps_unary(T, expr.cur + 1)
           IN  IF ~right.ok THEN right
               ELSE PsOk([type |-> "BinaryExpression", left |-> expr.node,
                          operator |-> operator, right |-> right.node,
                          position |-> expr.node.position], right.cur)
      ELSE expr

Ps_power(T, cur) ==
  LET expr == Ps_unary(T, cur)
  IN  IF ~expr.ok THEN expr
      ELSE IF Ps_match(T, expr.cur, {"POWER"})
      THEN LET operator == Ps_peek(T, expr.cur).value
               right == Ps_power(T, expr.cur + 1)   \* right associative
           IN  IF ~right.ok THEN right
               ELSE PsOk([type |-> "BinaryExpression", left |-> expr.node,
                          operator |-> operator, right |-> right.node,
                          position |-> expr.node.position], right.cur)
      ELSE expr

Ps_call(T, cur) ==
  LET expr == Ps_primary(T, cur)
  IN  IF ~expr.ok THEN expr ELSE Ps_callLoop(T, expr.node, expr.cur)

Ps_unary(T, cur) ==
  IF Ps_match(T, cur, {"NAHI", "MINUS"})
  THEN LET operator == Ps_peek(T, cur).value
           right == Ps_unary(T, cur + 1)
       IN  IF ~right.ok THEN right
           ELSE PsOk([type |-> "UnaryExpression", operator |-> operator,
                      operand |-> right.node,
                      position |-> Ps_getPosition(T, right.cur)], right.cur)
  ELSE Ps_call(T, cur)

\* finishCall, the do-while over the arguments: node is the list
Ps_argumentsLoop(T, cur, args) ==
  LET arg == Ps_expression(T, cur)
  IN  IF ~arg.ok THEN arg
      ELSE IF Ps_match(T, arg.cur, {"COMMA"})
      THEN Ps_argumentsLoop(T, arg.cur + 1, Append(args, arg.node))
      ELSE PsOk(Append(args, arg.node), arg.cur)

\* (callee as Identifier).name: undefined unless the node has a name
Ps_calleeName(callee) ==
  IF "name" \in DOMAIN callee THEN callee.name ELSE Undefined

Ps_finishCall(T, cur, callee) ==
  LET args == IF ~Ps_check(T, cur, "RIGHT_PAREN")
              THEN Ps_argumentsLoop(T, cur, <<>>)
              ELSE PsOk(<<>>, cur)
  IN  IF ~args.ok THEN args
      ELSE LET close == Ps_consume(T, args.cur, "RIGHT_PAREN",
                                   "Expected \")\" after arguments")
           IN  IF ~close.ok THEN close
               ELSE PsOk([type |-> "CallExpression",
                          callee |-> Ps_calleeName(callee),
                          arguments |-> args.node,
                          position |-> callee.position], close.cur)

Ps_callLoop(T, expr, cur) ==
  IF Ps_match(T, cur, {"LEFT_PAREN"})
  THEN LET called == Ps_finishCall(T, cur + 1, expr)
       IN  IF ~called.ok THEN called
           ELSE Ps_callLoop(T, called.node, called.cur)
  ELSE PsOk(expr, cur)

Ps_literal(T, cur, value, dataType) ==
  PsOk([type |-> "Literal", value |-> value, dataType |-> dataType,
        position |-> Ps_getPosition(T, cur + 1)], cur + 1)

Ps_primary(T, cur) ==
  IF Ps_match(T, cur, {"SACH"}) THEN Ps_literal(T, cur, TRUE, "boolean")
  ELSE IF Ps_match(T, cur, {"JHOOTH"}) THEN Ps_literal(T, cur, FALSE, "boolean")
  ELSE IF Ps_match(T, cur, {"NUMBER"})
  THEN Ps_literal(T, cur, parseFloat(Ps_peek(T, cur).value), "number")
  ELSE IF Ps_match(T, cur, {"STRING"})
  THEN Ps_literal(T, cur, Ps_peek(T, cur).value, "string")
  ELSE IF Ps_match(T, cur, {"PUCHHO"})
  THEN LET prompt == Ps_consume(T, cur + 1, "STRING", "Expected string after puchho")
       IN  IF ~prompt.ok THEN prompt
           ELSE PsOk([type |-> "InputStatement", prompt |-> prompt.node.value,
                      position |-> Ps_getPosition(T, prompt.cur)], prompt.cur)
  ELSE IF Ps_match(T, cur, {"RANGE"})
  THEN LET open == Ps_consume(T, cur + 1, "LEFT_PAREN", "Expected \"(\" after range")
       IN  IF ~open.ok THEN open
           ELSE LET arg == Ps_expression(T, open.cur)
                IN  IF ~arg.ok THEN arg
                    ELSE LET close == Ps_consume(T, arg.cur, "RIGHT_PAREN",
                                        "Expected \")\" after range argument")
                         IN  IF ~close.ok THEN close
                             ELSE PsOk([type |-> "CallExpression",
                                        callee |-> "range",
                                        arguments |-> <<arg.node>>,
                                        position |-> Ps_getPosition(T, close.cur)],
                                       close.cur)
  ELSE IF Ps_match(T, cur, {"IDENTIFIER"})
  THEN PsOk([type |-> "Identifier", name |-> Ps_peek(T, cur).value,
             position |-> Ps_getPosition(T, cur + 1)], cur + 1)
  ELSE IF Ps_match(T, cur, {"LEFT_PAREN"})
  THEN LET expr == Ps_expression(T, cur + 1)
       IN  IF ~expr.ok THEN expr
           ELSE LET close == Ps_consume(T, expr.cur, "RIGHT_PAREN",
                                        "Expected \")\" after expression")
                IN  IF ~close.ok THEN close ELSE PsOk(expr.node, close.cur)
  ELSE PsErr(EasyLangError("Expected expression",
                           Ps_peek(T, cur).position.line,
                           Ps_peek(T, cur).position.column), cur)

Ps_variableDeclaration(T, cur, isConstant) ==
  LET name == Ps_consume(T, cur, "IDENTIFIER",
                "Expected variable name after "
                  \o (IF isConstant THEN "sada" ELSE "banao"))
  IN  IF ~name.ok THEN name
      ELSE LET eq == Ps_consume(T, name.cur, "ASSIGN",
                                "Expected \"=\" after variable name")
           IN  IF ~eq.ok THEN eq
               ELSE LET value == Ps_expression(T, eq.cur)
                    IN  IF ~value.ok THEN value
                        ELSE PsOk([type |-> "VariableDeclaration",
                                   identifier |-> name.node.value,
                                   value |-> value.node,
                                   isConstant |-> isConstant,
                                   position |-> name.node.position], value.cur)

\* blockStatement(isArrowFunction): node is the list of statements
Ps_blockStatement(T, cur, isArrowFunction) ==
  Ps_blockLoop(T, cur, isArrowFunction, <<>>)

Ps_blockLoop(T, cur, isArrowFunction, statements) ==
  IF /\ ~Ps_check(T, cur, "DEDENT")
     /\ ~Ps_check(T, cur, "EOF")
     /\ (~isArrowFunction \/ ~Ps_check(T, cur, "RIGHT_BRACE"))
  THEN IF Ps_match(T, cur, {"NEWLINE"})
       THEN Ps_blockLoop(T, cur + 1, isArrowFunction, statements)
       ELSE LET stmt == Ps_statement(T, cur)
            IN  IF ~stmt.ok THEN stmt
                ELSE Ps_blockLoop(T, stmt.cur, isArrowFunction,
                                  Append(statements, stmt.node))
  ELSE PsOk(statements,
            IF ~isArrowFunction /\ Ps_match(T, cur, {"DEDENT"})
            THEN cur + 1 ELSE cur)

\* The shared shape of a header: <condition or iterable> ':' NEWLINE INDENT block
Ps_colonBlock(T, cur, message) ==
  LET colon == Ps_consume(T, cur, "COLON", message)
  IN  IF ~colon.ok THEN colon
      ELSE LET nl == Ps_consumeNewlineAndIndent(T, colon.cur)
           IN  IF ~nl.ok THEN nl ELSE Ps_blockStatement(T, nl.cur, FALSE)

Ps_ifStatement(T, cur) ==
  LET condition == Ps_expression(T, cur)
  IN  IF ~condition.ok THEN condition
      ELSE LET thenBranch == Ps_colonBlock(T, condition.cur,
                                           "Expected \":\" after if condition")
           IN  IF ~thenBranch.ok THEN thenBranch
               ELSE IF Ps_match(T, thenBranch.cur, {"WARNA"})
               THEN LET elseBranch == Ps_colonBlock(T, thenBranch.cur + 1,
                                                    "Expected \":\" after warna")
                    IN  IF ~elseBranch.ok THEN elseBranch
                        ELSE PsOk([type |-> "IfStatement",
                                   condition |-> condition.node,
                                   thenBranch |-> thenBranch.node,
                                   elseBranch |-> <<elseBranch.node>>,
                                   position |-> Ps_getPosition(T, elseBranch.cur)],
                                  elseBranch.cur)
               ELSE PsOk([type |-> "IfStatement",
                          condition |-> condition.node,
                          thenBranch |-> thenBranch.node,
                          elseBranch |-> <<>>,
                          position |-> Ps_getPosition(T, thenBranch.cur)],
                         thenBranch.cur)

Ps_forLoop(T, cur) ==
  LET variable == Ps_consume(T, cur, "IDENTIFIER",
                             "Expected variable name in for loop")
  IN  IF ~variable.ok THEN variable
      ELSE LET in == Ps_consume(T, variable.cur, "IN",
                                "Expected \"in\" after for loop variable")
           IN  IF ~in.ok THEN in
               ELSE LET iterable == Ps_expression(T, in.cur)
                    IN  IF ~iterable.ok THEN iterable
                        ELSE LET body == Ps_colonBlock(T, iterable.cur,
                                           "Expected \":\" after for loop expression")
                             IN  IF ~body.ok THEN body
                                 ELSE PsOk([type |-> "ForLoop",
                                            variable |-> variable.node.value,
                                            iterable |-> iterable.node,
                                            body |-> body.node,
                                            position |-> Ps_getPosition(T, body.cur)],
                                           body.cur)

Ps_whileLoop(T, cur) ==
  LET condition == Ps_expression(T, cur)
  IN  IF ~condition.ok THEN condition
      ELSE LET body == Ps_colonBlock(T, condition.cur,
                                     "Expected \":\" after while condition")
           IN  IF ~body.ok THEN body
               ELSE PsOk([type |-> "WhileLoop", condition |-> condition.node,
                          body |-> body.node,
                          position |-> Ps_getPosition(T, body.cur)], body.cur)

RECURSIVE Ps_parametersLoop(_, _, _)
\* functionDeclaration, the do-while over the parameter names
Ps_parametersLoop(T, cur, parameters) ==
  LET name == Ps_consume(T, cur, "IDENTIFIER", "Expected parameter name")
  IN  IF ~name.ok THEN name
      ELSE IF Ps_match(T, name.cur, {"COMMA"})
      THEN Ps_parametersLoop(T, name.cur + 1, Append(parameters, name.node.value))
      ELSE PsOk(Append(parameters, name.node.value), name.cur)

\* functionDeclaration, from the body on
Ps_functionBody(T, cur, style, functionName, parameters) ==
  LET open == IF style = "system"
              THEN LET colon == Ps_consume(T, cur, "COLON",
                                  "Expected \":\" after function signature")
                   IN  IF ~colon.ok THEN colon
                       ELSE Ps_consumeNewlineAndIndent(T, colon.cur)
              ELSE LET brace == Ps_consume(T, cur, "LEFT_BRACE",
                                  "Expected \"{\" after arrow function signature")
                   IN  IF ~brace.ok THEN brace
                       ELSE PsOk(<<>>, IF Ps_match(T, brace.cur, {"NEWLINE"})
                                       THEN brace.cur + 1 ELSE brace.cur)
  IN  IF ~open.ok THEN open
      ELSE LET body == Ps_blockStatement(T, open.cur, style = "arrow")
               close == IF style = "arrow"
                        THEN Ps_consume(T, body.cur, "RIGHT_BRACE",
                                        "Expected \"}\" after arrow function body")
                        ELSE PsOk(<<>>, body.cur)
           IN  IF ~body.ok THEN body
               ELSE IF ~close.ok THEN close
               ELSE PsOk([type |-> "FunctionDeclaration", name |-> functionName,
                          parameters |-> parameters, body |-> body.node,
                          style |-> style,
                          position |-> Ps_getPosition(T, close.cur)], close.cur)

\* functionDeclaration(style, name): name is read only for the arrow style
Ps_functionDeclaration(T, cur, style, name) ==
  LET fname == IF style = "system"
               THEN Ps_consume(T, cur, "IDENTIFIER", "Expected function name")
               ELSE PsOk([value |-> name], cur)
  IN  IF ~fname.ok THEN fname
      ELSE LET open == Ps_consume(T, fname.cur, "LEFT_PAREN",
                                  "Expected \"(\" after function name")
           IN  IF ~open.ok THEN open
               ELSE LET parameters == IF ~Ps_check(T, open.cur, "RIGHT_PAREN")
                                      THEN Ps_parametersLoop(T, open.cur, <<>>)
                                      ELSE PsOk(<<>>, open.cur)
                    IN  IF ~parameters.ok THEN parameters
                        ELSE LET close == Ps_consume(T, parameters.cur, "RIGHT_PAREN",
                                            "Expected \")\" after parameters")
                             IN  IF ~close.ok THEN close
                                 ELSE Ps_functionBody(T, close.cur, style,
                                        fname.node.value, parameters.node)

Ps_returnStatement(T, cur) ==
  IF ~Ps_check(T, cur, "NEWLINE") /\ ~Ps_isAtEnd(T, cur)
  THEN LET value == Ps_expression(T, cur)
       IN  IF ~value.ok THEN value
           ELSE PsOk([type |-> "ReturnStatement", value |-> <<value.node>>,
                      position |-> Ps_getPosition(T, value.cur)], value.cur)
  ELSE PsOk([type |-> "ReturnStatement", value |-> <<>>,
             position |-> Ps_getPosition(T, cur)], cur)

Ps_printStatement(T, cur) ==
  LET value == Ps_expression(T, cur)
  IN  IF ~value.ok THEN value
      ELSE PsOk([type |-> "PrintStatement", value |-> value.node,
                 position |-> Ps_getPosition(T, value.cur)], value.cur)

Ps_assignmentOrExpression(T, cur) ==
  LET expr == Ps_expression(T, cur)
  IN  IF ~expr.ok THEN expr
      ELSE IF expr.node.type = "Identifier" /\ Ps_match(T, expr.cur, {"ASSIGN"})
      THEN LET value == Ps_expression(T, expr.cur + 1)
           IN  IF ~value.ok THEN value
               ELSE PsOk([type |-> "Assignment", identifier |-> expr.node.name,
                          value |-> value.node,
                          position |-> expr.node.position], value.cur)
      ELSE expr

\* statement(), the body of its try
Ps_statementBody(T, cur) ==
  IF Ps_match(T, cur, {"BANAO"}) THEN Ps_variableDeclaration(T, cur + 1, FALSE)
  ELSE IF Ps_match(T, cur, {"SADA"}) THEN Ps_variableDeclaration(T, cur + 1, TRUE)
  ELSE IF Ps_match(T, cur, {"AGAR"}) THEN Ps_ifStatement(T, cur + 1)
  ELSE IF Ps_match(T, cur, {"DOHRANA"}) THEN Ps_forLoop(T, cur + 1)
  ELSE IF Ps_match(T, cur, {"JAB_TAK"}) THEN Ps_whileLoop(T, cur + 1)
  ELSE IF Ps_match(T, cur, {"SYSTEM"})
  THEN Ps_functionDeclaration(T, cur + 1, "system", Undefined)
  ELSE IF Ps_match(T, cur, {"RETURN"}) THEN Ps_returnStatement(T, cur + 1)
  ELSE IF Ps_match(T, cur, {"LIKHO"}) THEN Ps_printStatement(T, cur + 1)
  ELSE IF Ps_check(T, cur, "IDENTIFIER")
  THEN LET name == Ps_peek(T, cur).value
           next == Ps_advance(T, cur)
       IN  IF Ps_match(T, next, {"KA_SYSTEM"})
           THEN Ps_functionDeclaration(T, next + 1, "arrow", name)
           ELSE Ps_assignmentOrExpression(T, cur)   \* this.current = checkpoint
  ELSE Ps_assignmentOrExpression(T, cur)

\* statement() that returns at a DEDENT token without consuming it
Ps_statement_staysAtDedent(T, cur) ==
  IF Ps_check(T, cur, "DEDENT") THEN PsOk(Ps_peek(T, cur), cur)
  ELSE LET r == Ps_statementBody(T, cur)
       IN  IF r.ok THEN r ELSE PsErr(r.error, Ps_synchronize(T, r.cur))

\* statement() throwing an error placed where synchronize() stopped
Ps_statement_reportsWhereItResumes(T, cur) ==
  LET r == Ps_statementBody(T, cur)
      resumed == Ps_synchronize(T, r.cur)
  IN  IF r.ok THEN r
      ELSE PsErr(EasyLangError(r.error.message,
                               Ps_peek(T, resumed).position.line,
                               Ps_peek(T, resumed).position.column), resumed)

\* statement(): on an error, synchronize() and throw the error again
Ps_statement(T, cur) ==
  LET r == Ps_statementBody(T, cur)
  IN  IF r.ok THEN r ELSE PsErr(r.error, Ps_synchronize(T, r.cur))

RECURSIVE Ps_parseLoop(_, _, _)
\* parse(), the top-level loop
Ps_parseLoop(T, cur, statements) ==
  IF ~Ps_isAtEnd(T, cur)
  THEN IF Ps_check(T, cur, "NEWLINE")
       THEN Ps_parseLoop(T, Ps_advance(T, cur), statements)
       ELSE LET stmt == Ps_statement(T, cur)
            IN  IF ~stmt.ok THEN stmt
                ELSE Ps_parseLoop(T, stmt.cur, Append(statements, stmt.node))
  ELSE PsOk([type |-> "Program", body |-> statements,
             position |-> [line |-> 1, column |-> 1]], cur)

\* new Parser(tokens).parse(): node is the Program unless ~ok
Ps_parse(T) == Ps_parseLoop(T, 0, <<>>)

(***************************************************************************)
(* Number arithmetic of the host (IEEE doubles, here exact rationals)      *)
(***************************************************************************)

Infinity == <<1, 0>>

RNeg(a) == <<-a[1], a[2]>>

RAdd(a, b) ==
  IF isNaN(a) \/ isNaN(b) THEN NaN
  ELSE IF ~isFinite(a) /\ ~isFinite(b) THEN (IF a = b THEN a ELSE NaN)
  ELSE IF ~isFinite(a) THEN a
  ELSE IF ~isFinite(b) THEN b
  ELSE Rat(a[1] * b[2] + b[1] * a[2], a[2] * b[2])

RSub(a, b) == RAdd(a, RNeg(b))

RMul(a, b) ==
  IF isNaN(a) \/ isNaN(b) THEN NaN
  ELSE IF ~isFinite(a) \/ ~isFinite(b) THEN Rat(a[1] * b[1], 0)
  ELSE Rat(a[1] * b[1], a[2] * b[2])

\* a / b for b # 0 (the interpreter throws before it divides by zero)
RDiv(a, b) ==
  IF isNaN(a) \/ isNaN(b) THEN NaN
  ELSE IF ~isFinite(a) /\ ~isFinite(b) THEN NaN
  ELSE IF ~isFinite(b) THEN Num(0)
  ELSE IF ~isFinite(a) THEN Rat(a[1] * b[1], 0)
  ELSE Rat(a[1] * b[2], a[2] * b[1])

\* Math.floor (TLA+'s \div rounds towards minus infinity)
Floor(a) == IF ~isFinite(a) THEN a ELSE Num(a[1] \div a[2])

\* The integer part, rounded towards zero
Trunc(a) == IF a[1] >= 0 THEN a[1] \div a[2] ELSE -((-a[1]) \div a[2])

\* a % b: the remainder has the sign of the dividend
RMod(a, b) ==
  IF isNaN(a) \/ isNaN(b) \/ ~isFinite(a) \/ b = Num(0) THEN NaN
  ELSE IF ~isFinite(b) THEN a
  ELSE RSub(a, RMul(b, Num(Trunc(RDiv(a, b)))))

RECURSIVE IntPow(_, _)
IntPow(a, k) == IF k = 0 THEN Num(1) ELSE RMul(a, IntPow(a, k - 1))

\* Math.pow for an integer exponent; another exponent has no rational
\* result in general, and the programs of this model do not use one
RPow(a, b) ==
  IF b = Num(0) THEN Num(1)
  ELSE IF isNaN(a) \/ isNaN(b) THEN NaN
  ELSE IF isFinite(b) /\ b[2] = 1 /\ isFinite(a)
  THEN IF b[1] > 0 THEN IntPow(a, b[1])
       ELSE LET p == IntPow(a, -b[1]) IN Rat(p[2], p[1])
  ELSE NaN

RLess(a, b) ==
  IF isNaN(a) \/ isNaN(b) THEN FALSE
  ELSE IF ~isFinite(a) \/ ~isFinite(b)
  THEN a # b /\ (a = RNeg(Infinity) \/ b = Infinity)
  ELSE a[1] * b[2] < b[1] * a[2]

\* left === right on numbers
REqual(a, b) == ~isNaN(a) /\ a = b

RECURSIVE FractionDigits(_, _, _)
\* The decimal digits of r/d (0 <= r < d), at most k of them
FractionDigits(r, d, k) ==
  IF r = 0 \/ k = 0 THEN ""
  ELSE ToString((r * 10) \div d) \o FractionDigits((r * 10) % d, d, k - 1)

\* Number.prototype.toString(): exact for integers and for decimals of at
\* most 16 fraction digits
NumberToString(a) ==
  IF isNaN(a) THEN "NaN"
  ELSE IF ~isFinite(a) THEN (IF a[1] > 0 THEN "Infinity" ELSE "-Infinity")
  ELSE IF a[2] = 1 THEN ToString(a[1])
  ELSE (IF a[1] < 0 THEN "-" ELSE "")
         \o ToString(Abs(a[1]) \div a[2]) \o "."
         \o FractionDigits(Abs(a[1]) % a[2], a[2], 16)

(***************************************************************************)
(* Runtime values and environments.  The Environment objects live in the   *)
(* sequence envs; a reference to one is its index, and 0 is no parent.     *)
(***************************************************************************)

NumberValue(q) == [type |-> "number", value |-> q]

StringValue(s) == [type |-> "string", value |-> s]

BooleanValue(b) == [type |-> "boolean", value |-> b]

RangeValue(q) == [type |-> "range", value |-> q]

\* { type: 'function', value: EasyLangFunction }
FunctionValue(name, parameters, body, closure) ==
  [type |-> "function",
   value |-> [name |-> name, parameters |-> parameters, body |-> body,
              closure |-> closure]]

EmptyMap == [n \in {} |-> FALSE]

\* Map.prototype.set
MapSet(m, key, value) ==
  [k \in DOMAIN m \cup {key} |-> IF k = key THEN value ELSE m[k]]

\* `${name}` in a message: the text of a name, or of undefined
JsStr(name) == IF name = Undefined THEN "undefined" ELSE name

\* new Environment(parent)
Environment(parent) == [values |-> EmptyMap, constants |-> {}, parent |-> parent]

\* define that overwrites a name already defined in the environment
Env_define_overwrites(envs, e, name, value, isConstant) ==
  [ok |-> TRUE,
   envs |-> [envs EXCEPT ![e].values = MapSet(@, name, value),
                         ![e].constants = IF isConstant THEN @ \cup {name} ELSE @],
   message |-> ""]

\* define: [ok, envs, message]
Env_define(envs, e, name, value, isConstant) ==
  IF name \in DOMAIN envs[e].values
  THEN [ok |-> FALSE, envs |-> envs,
        message |-> "Variable '" \o JsStr(name) \o "' already defined"]
  ELSE [ok |-> TRUE,
        envs |-> [envs EXCEPT ![e].values = MapSet(@, name, value),
                              ![e].constants = IF isConstant THEN @ \cup {name} ELSE @],
        message |-> ""]

RECURSIVE Env_get(_, _, _)
\* get: [ok, value, message]
Env_get(envs, e, name) ==
  IF name \in DOMAIN envs[e].values
  THEN [ok |-> TRUE, value |-> envs[e].values[name], message |-> ""]
  ELSE IF envs[e].parent # 0 THEN Env_get(envs, envs[e].parent, name)
  ELSE [ok |-> FALSE, value |-> BooleanValue(FALSE),
        message |-> "Undefined variable '" \o JsStr(name) \o "'"]

RECURSIVE Env_assign(_, _, _, _)
\* assign: [ok, envs, message]
Env_assign(envs, e, name, value) ==
  IF name \in envs[e].constants
  THEN [ok |-> FALSE, envs |-> envs,
        message |-> "Cannot reassign constant '" \o JsStr(name) \o "'"]
  ELSE IF name \in DOMAIN envs[e].values
  THEN [ok |-> TRUE, envs |-> [envs EXCEPT ![e].values = MapSet(@, name, value)],
        message |-> ""]
  ELSE IF envs[e].parent # 0 THEN Env_assign(envs, envs[e].parent, name, value)
  ELSE [ok |-> FALSE, envs |-> envs,
        message |-> "Undefined variable '" \o JsStr(name) \o "'"]

(***************************************************************************)
(* Interpreter.  An Interpreter object is [envs, environment, output,      *)
(* inputCallback]; this.globals is envs[globals].  A visit method is an    *)
(* operator of the object I and the node; it yields [I, kind, value,       *)
(* message]: kind "ok" with the value returned, "error" for a thrown Error *)
(* with its message, "return" for a thrown ReturnException with its value, *)
(* and "hang" when the call does not come back within MaxIterations.       *)
(***************************************************************************)

MaxIterations == 4

globals == 1

Void == BooleanValue(FALSE)

Ok(I, value) == [I |-> I, kind |-> "ok", value |-> value, message |-> ""]

Throw(I, message) == [I |-> I, kind |-> "error", value |-> Void, message |-> message]

\* A ReturnException with a message of its own
ThrowReturn_withMessage(I, value) ==
  [I |-> I, kind |-> "return", value |-> value, message |-> "return"]

\* throw new ReturnException(value): an Error whose message is ''
ThrowReturn(I, value) == [I |-> I, kind |-> "return", value |-> value, message |-> ""]

Hang(I) == [I |-> I, kind |-> "hang", value |-> Void, message |-> ""]

\* setupBuiltins: the built-in range function
RangeBuiltin == FunctionValue("range", <<"n">>, <<>>, globals)

\* new Interpreter(inputCallback): inputCallback is <<>> (none) or <<reply>>,
\* a callback that answers every prompt with reply
Interpreter(inputCallback) ==
  [envs |-> <<[Environment(0) EXCEPT !.values = MapSet(@, "range", RangeBuiltin)]>>,
   environment |-> globals,
   output |-> <<>>,
   inputCallback |-> inputCallback]

isTruthy(value) ==
  CASE value.type = "boolean" -> value.value
    [] value.type = "number" -> value.value # Num(0)
    [] value.type = "string" -> Len(value.value) > 0
    [] OTHER -> TRUE

isEqual(left, right) ==
  IF left.type # right.type THEN FALSE
  ELSE IF left.type \in {"number", "range"} THEN REqual(left.value, right.value)
  ELSE left.value = right.value

stringify(value) ==
  CASE value.type = "boolean" -> IF value.value THEN "sach" ELSE "jhooth"
    [] value.type = "number" -> NumberToString(value.value)
    [] value.type = "string" -> value.value
    [] OTHER -> "[object]"

\* visitBinaryExpression's switch with the division left to the host
binaryOperation_noZeroCheck(I, operator, left, right) ==
  LET numeric == left.type = "number" /\ right.type = "number"
      l == left.value
      r == right.value
      invalid == Throw(I, "Invalid binary operation: " \o left.type \o " "
                            \o operator \o " " \o right.type)
  IN  CASE operator = "+" ->
             IF left.type = "string" \/ right.type = "string"
             THEN Ok(I, StringValue(stringify(left) \o stringify(right)))
             ELSE IF numeric THEN Ok(I, NumberValue(RAdd(l, r)))
             ELSE invalid
        [] operator = "-" -> IF numeric THEN Ok(I, NumberValue(RSub(l, r))) ELSE invalid
        [] operator = "*" -> IF numeric THEN Ok(I, NumberValue(RMul(l, r))) ELSE invalid
        [] operator = "/" ->
             IF numeric
             THEN Ok(I, NumberValue(RDiv(l, r)))
             ELSE invalid
        [] operator = "%" -> IF numeric THEN Ok(I, NumberValue(RMod(l, r))) ELSE invalid
        [] operator = "**" -> IF numeric THEN Ok(I, NumberValue(RPow(l, r))) ELSE invalid
        [] operator = "==" -> Ok(I, BooleanValue(isEqual(left, right)))
        [] operator = "!=" -> Ok(I, BooleanValue(~isEqual(left, right)))
        [] operator = "<" -> IF numeric THEN Ok(I, BooleanValue(RLess(l, r))) ELSE invalid
        [] operator = ">" -> IF numeric THEN Ok(I, BooleanValue(RLess(r, l))) ELSE invalid
        [] operator = "<=" ->
             IF numeric THEN Ok(I, BooleanValue(RLess(l, r) \/ REqual(l, r)))
             ELSE invalid
        [] operator = ">=" ->
             IF numeric THEN Ok(I, BooleanValue(RLess(r, l) \/ REqual(l, r)))
             ELSE invalid
        [] operator = "aur" -> Ok(I, BooleanValue(isTruthy(left) /\ isTruthy(right)))
        [] operator = "ya" -> Ok(I, BooleanValue(isTruthy(left) \/ isTruthy(right)))
        [] OTHER -> invalid

\* visitBinaryExpression once both operands are values
binaryOperation(I, operator, left, right) ==
  LET numeric == left.type = "number" /\ right.type = "number"
      l == left.value
      r == right.value
      invalid == Throw(I, "Invalid binary operation: " \o left.type \o " "
                            \o operator \o " " \o right.type)
  IN  CASE operator = "+" ->
             IF left.type = "string" \/ right.type = "string"
             THEN Ok(I, StringValue(stringify(left) \o stringify(right)))
             ELSE IF numeric THEN Ok(I, NumberValue(RAdd(l, r)))
             ELSE invalid
        [] operator = "-" -> IF numeric THEN Ok(I, NumberValue(RSub(l, r))) ELSE invalid
        [] operator = "*" -> IF numeric THEN Ok(I, NumberValue(RMul(l, r))) ELSE invalid
        [] operator = "/" ->
             IF numeric
             THEN IF r = Num(0) THEN Throw(I, "Division by zero")
                  ELSE Ok(I, NumberValue(RDiv(l, r)))
             ELSE invalid
        [] operator = "%" -> IF numeric THEN Ok(I, NumberValue(RMod(l, r))) ELSE invalid
        [] operator = "**" -> IF numeric THEN Ok(I, NumberValue(RPow(l, r))) ELSE invalid
        [] operator = "==" -> Ok(I, BooleanValue(isEqual(left, right)))
        [] operator = "!=" -> Ok(I, BooleanValue(~isEqual(left, right)))
        [] operator = "<" -> IF numeric THEN Ok(I, BooleanValue(RLess(l, r))) ELSE invalid
        [] operator = ">" -> IF numeric THEN Ok(I, BooleanValue(RLess(r, l))) ELSE invalid
        [] operator = "<=" ->
             IF numeric THEN Ok(I, BooleanValue(RLess(l, r) \/ REqual(l, r)))
             ELSE invalid
        [] operator = ">=" ->
             IF numeric THEN Ok(I, BooleanValue(RLess(r, l) \/ REqual(l, r)))
             ELSE invalid
        [] operator = "aur" -> Ok(I, BooleanValue(isTruthy(left) /\ isTruthy(right)))
        [] operator = "ya" -> Ok(I, BooleanValue(isTruthy(left) \/ isTruthy(right)))
        [] OTHER -> invalid

\* const v = ...; rest: the statements after a local binding, as rest(v)
Bind(v, rest(_)) == rest(v)

\* The statements after a call that may throw: they run when it returned
Try(r, rest(_)) == IF r.kind # "ok" THEN r ELSE rest(r)

RECURSIVE visitStatement(_, _)
RECURSIVE visitExpression(_, _)
RECURSIVE visitStatements(_, _, _)
RECURSIVE visitArguments(_, _, _, _)
RECURSIVE whileIterations(_, _, _)
RECURSIVE forIterations(_, _, _, _)
RECURSIVE bindParameters(_, _, _, _)

\* for (const statement of statements) this.visitStatement(statement), from
\* the i-th statement on
visitStatements(I, statements, i) ==
  IF i > Len(statements) THEN Ok(I, Void)
  ELSE Try(visitStatement(I, statements[i]),
           LAMBDA r : visitStatements(r.I, statements, i + 1))

visitProgram(I, node) == visitStatements(I, node.body, 1)

visitVariableDeclaration(I, node) ==
  Try(visitExpression(I, node.value), LAMBDA value :
    Bind(Env_define(value.I.envs, value.I.environment, node.identifier,
                    value.value, node.isConstant), LAMBDA d :
      IF d.ok THEN Ok([value.I EXCEPT !.envs = d.envs], Void)
      ELSE Throw(value.I, d.message)))

visitAssignment(I, node) ==
  Try(visitExpression(I, node.value), LAMBDA value :
    Bind(Env_assign(value.I.envs, value.I.environment, node.identifier,
                    value.value), LAMBDA a :
      IF a.ok THEN Ok([value.I EXCEPT !.envs = a.envs], Void)
      ELSE Throw(value.I, a.message)))

visitIfStatement(I, node) ==
  Try(visitExpression(I, node.condition), LAMBDA condition :
    IF isTruthy(condition.value) \/ node.elseBranch # <<>>
    THEN visitStatements(condition.I,
                         IF isTruthy(condition.value) THEN node.thenBranch
                         ELSE node.elseBranch[1], 1)
    ELSE Ok(condition.I, Void))

\* visitWhileLoop without its catch: an error of the body leaves the loop
whileIterations_noCatch(I, node, n) ==
  Try(visitExpression(I, node.condition), LAMBDA condition :
    IF ~isTruthy(condition.value) THEN Ok(condition.I, Void)
    ELSE IF n >= MaxIterations THEN Hang(condition.I)
    ELSE Try(visitStatements(condition.I, node.body, 1), LAMBDA body :
           whileIterations(body.I, node, n + 1)))

\* visitWhileLoop after n iterations
whileIterations(I, node, n) ==
  Try(visitExpression(I, node.condition), LAMBDA condition :
    IF ~isTruthy(condition.value) THEN Ok(condition.I, Void)
    ELSE IF n >= MaxIterations THEN Hang(condition.I)
    ELSE Bind(visitStatements(condition.I, node.body, 1), LAMBDA body :
           CASE body.kind = "ok" -> whileIterations(body.I, node, n + 1)
             [] body.kind = "error" -> Ok(body.I, Void)   \* catch: break
             [] OTHER -> body))                           \* throw error

visitWhileLoop(I, node) == whileIterations(I, node, 0)

\* The inside of visitForLoop's try, from iteration i on
forIterations(I, node, bound, i) ==
  IF ~RLess(Num(i), bound) THEN Ok(I, Void)
  ELSE Bind(Env_define(I.envs, I.environment, node.variable,
                       NumberValue(Num(i)), FALSE), LAMBDA d :
         IF ~d.ok THEN Throw(I, d.message)
         ELSE Try(visitStatements([I EXCEPT !.envs = d.envs], node.body, 1),
                  LAMBDA body : forIterations(body.I, node, bound, i + 1)))

\* visitForLoop without its finally: the loop's environment stays current
visitForLoop_withoutFinally(I, node) ==
  Try(visitExpression(I, node.iterable), LAMBDA iterable :
    IF iterable.value.type # "range"
    THEN Throw(iterable.I, "For loop requires a range")
    ELSE forIterations(
           [iterable.I EXCEPT !.envs = Append(@, Environment(iterable.I.environment)),
                              !.environment = Len(iterable.I.envs) + 1],
           node, iterable.value.value, 0))

visitForLoop(I, node) ==
  Try(visitExpression(I, node.iterable), LAMBDA iterable :
    IF iterable.value.type # "range"
    THEN Throw(iterable.I, "For loop requires a range")
    ELSE Bind(iterable.I.environment, LAMBDA previous :
           Bind(forIterations(
                  [iterable.I EXCEPT !.envs = Append(@, Environment(previous)),
                                     !.environment = Len(iterable.I.envs) + 1],
                  node, iterable.value.value, 0), LAMBDA r :
             \* finally
             [r EXCEPT !.I.environment = previous])))

visitFunctionDeclaration(I, node) ==
  Bind(Env_define(I.envs, I.environment, node.name,
                  FunctionValue(node.name, node.parameters, node.body,
                                I.environment), FALSE), LAMBDA d :
    IF d.ok THEN Ok([I EXCEPT !.envs = d.envs], Void) ELSE Throw(I, d.message))

\* visitReturnStatement that evaluates its value and throws nothing
visitReturnStatement_noSignal(I, node) ==
  IF node.value # <<>>
  THEN Try(visitExpression(I, node.value[1]), LAMBDA value : Ok(value.I, Void))
  ELSE Ok(I, Void)

visitReturnStatement(I, node) ==
  IF node.value # <<>>
  THEN Try(visitExpression(I, node.value[1]),
           LAMBDA value : ThrowReturn(value.I, value.value))
  ELSE ThrowReturn(I, BooleanValue(FALSE))

visitPrintStatement(I, node) ==
  Try(visitExpression(I, node.value), LAMBDA value :
    Ok([value.I EXCEPT !.output = Append(@, stringify(value.value))], Void))

visitStatement(I, node) ==
  CASE node.type = "VariableDeclaration" -> visitVariableDeclaration(I, node)
    [] node.type = "Assignment" -> visitAssignment(I, node)
    [] node.type = "IfStatement" -> visitIfStatement(I, node)
    [] node.type = "WhileLoop" -> visitWhileLoop(I, node)
    [] node.type = "ForLoop" -> visitForLoop(I, node)
    [] node.type = "FunctionDeclaration" -> visitFunctionDeclaration(I, node)
    [] node.type = "ReturnStatement" -> visitReturnStatement(I, node)
    [] node.type = "PrintStatement" -> visitPrintStatement(I, node)
    [] OTHER -> Try(visitExpression(I, node), LAMBDA r : Ok(r.I, Void))

visitBinaryExpression(I, node) ==
  Try(visitExpression(I, node.left), LAMBDA left :
    Try(visitExpression(left.I, node.right), LAMBDA right :
      binaryOperation(right.I, node.operator, left.value, right.value)))

visitUnaryExpression(I, node) ==
  Try(visitExpression(I, node.operand), LAMBDA operand :
    IF node.operator = "nahi"
    THEN Ok(operand.I, BooleanValue(~isTruthy(operand.value)))
    ELSE IF node.operator = "-" /\ operand.value.type = "number"
    THEN Ok(operand.I, NumberValue(RNeg(operand.value.value)))
    ELSE Throw(operand.I, "Invalid unary operation: " \o node.operator
                            \o " " \o operand.value.type))

\* node.arguments.map(arg => this.visitExpression(arg)): value is the list
visitArguments(I, arguments, i, values) ==
  IF i > Len(arguments) THEN Ok(I, values)
  ELSE Try(visitExpression(I, arguments[i]), LAMBDA arg :
         visitArguments(arg.I, arguments, i + 1, Append(values, arg.value)))

\* visitCallExpression, the loop that binds the parameters, from the i-th on
bindParameters(I, parameters, args, i) ==
  IF i > Len(parameters) THEN Ok(I, Void)
  ELSE Bind(Env_define(I.envs, I.environment, parameters[i], args[i], FALSE),
            LAMBDA d :
         IF ~d.ok THEN Throw(I, d.message)
         ELSE bindParameters([I EXCEPT !.envs = d.envs], parameters, args, i + 1))

\* callFunction with the new environment parented at the caller's environment
\* instead of the function's closure (dynamic scoping)
callFunction_dynamicScope(I, func, args) ==
  Bind(I.environment, LAMBDA previous :
    Try(bindParameters([I EXCEPT !.envs = Append(@, Environment(previous)),
                                 !.environment = Len(I.envs) + 1],
                       func.parameters, args, 1), LAMBDA bound :
      Bind(visitStatements(bound.I, func.body, 1), LAMBDA body :
        CASE body.kind = "ok" ->
               Ok([body.I EXCEPT !.environment = previous], BooleanValue(FALSE))
          [] body.kind = "return" ->
               Ok([body.I EXCEPT !.environment = previous], body.value)
          [] body.kind = "error" ->
               [body EXCEPT !.I.environment = previous]
          [] OTHER -> body)))

\* visitCallExpression from `const previous = this.environment` on
callFunction(I, func, args) ==
  Bind(I.environment, LAMBDA previous :
    \* the parameters are bound before the try is entered
    Try(bindParameters([I EXCEPT !.envs = Append(@, Environment(func.closure)),
                                 !.environment = Len(I.envs) + 1],
                       func.parameters, args, 1), LAMBDA bound :
      Bind(visitStatements(bound.I, func.body, 1), LAMBDA body :
        CASE body.kind = "ok" ->
               Ok([body.I EXCEPT !.environment = previous], BooleanValue(FALSE))
          [] body.kind = "return" ->
               Ok([body.I EXCEPT !.environment = previous], body.value)
          [] body.kind = "error" ->
               [body EXCEPT !.I.environment = previous]
          [] OTHER -> body)))

\* visitCallExpression, the built-in range function
callRange(I, node) ==
  IF Len(node.arguments) # 1
  THEN Throw(I, "range() expects exactly one argument")
  ELSE Try(visitExpression(I, node.arguments[1]), LAMBDA arg :
         IF arg.value.type # "number"
         THEN Throw(arg.I, "range() argument must be a number")
         ELSE Ok(arg.I, RangeValue(Floor(arg.value.value))))

visitCallExpression(I, node) ==
  IF node.callee = "range" THEN callRange(I, node)
  ELSE Bind(Env_get(I.envs, I.environment, node.callee), LAMBDA callee :
         IF ~callee.ok THEN Throw(I, callee.message)
         ELSE IF callee.value.type # "function"
         THEN Throw(I, "'" \o JsStr(node.callee) \o "' is not a function")
         ELSE Try(visitArguments(I, node.arguments, 1, <<>>), LAMBDA args :
                IF Len(args.value) # Len(callee.value.value.parameters)
                THEN Throw(args.I,
                           "Function '" \o callee.value.value.name \o "' expects "
                           \o ToString(Len(callee.value.value.parameters))
                           \o " arguments, got " \o ToString(Len(args.value)))
                ELSE callFunction(args.I, callee.value.value, args.value)))

visitIdentifier(I, node) ==
  Bind(Env_get(I.envs, I.environment, node.name), LAMBDA v :
    IF v.ok THEN Ok(I, v.value) ELSE Throw(I, v.message))

visitLiteral(I, node) == Ok(I, [type |-> node.dataType, value |-> node.value])

visitInputStatement(I, node) ==
  IF I.inputCallback # <<>>
  THEN Bind(parseFloat(I.inputCallback[1]), LAMBDA num :
         IF ~isNaN(num) /\ isFinite(num) THEN Ok(I, NumberValue(num))
         ELSE Ok(I, StringValue(I.inputCallback[1])))
  ELSE Throw(I, "Input not available in this context")

visitExpression(I, node) ==
  CASE node.type = "BinaryExpression" -> visitBinaryExpression(I, node)
    [] node.type = "UnaryExpression" -> visitUnaryExpression(I, node)
    [] node.type = "CallExpression" -> visitCallExpression(I, node)
    [] node.type = "Identifier" -> visitIdentifier(I, node)
    [] node.type = "Literal" -> visitLiteral(I, node)
    [] node.type = "InputStatement" -> visitInputStatement(I, node)
    [] OTHER -> Throw(I, "Unknown expression type: " \o node.type)

\* interpret with a catch that lets a ReturnException through to the caller
interpret_rethrowsReturn(I0, program) ==
  Bind(visitProgram([I0 EXCEPT !.output = <<>>], program), LAMBDA r :
    CASE r.kind = "ok" ->
           [I |-> r.I, returned |-> TRUE, thrown |-> FALSE,
            output |-> r.I.output, hasError |-> FALSE, error |-> ""]
      [] r.kind = "error" ->
           [I |-> r.I, returned |-> TRUE, thrown |-> FALSE,
            output |-> r.I.output, hasError |-> TRUE, error |-> r.message]
      [] r.kind = "return" ->
           [I |-> r.I, returned |-> FALSE, thrown |-> TRUE,
            output |-> <<>>, hasError |-> FALSE, error |-> r.message]
      [] OTHER ->
           [I |-> r.I, returned |-> FALSE, thrown |-> FALSE,
            output |-> <<>>, hasError |-> FALSE, error |-> ""])

\* interpret with a catch that returns no output beside the error
interpret_dropsOutput(I0, program) ==
  Bind(visitProgram([I0 EXCEPT !.output = <<>>], program), LAMBDA r :
    CASE r.kind = "ok" ->
           [I |-> r.I, returned |-> TRUE, thrown |-> FALSE,
            output |-> r.I.output, hasError |-> FALSE, error |-> ""]
      [] r.kind \in {"error", "return"} ->
           [I |-> r.I, returned |-> TRUE, thrown |-> FALSE,
            output |-> <<>>, hasError |-> TRUE, error |-> r.message]
      [] OTHER ->
           [I |-> r.I, returned |-> FALSE, thrown |-> FALSE,
            output |-> <<>>, hasError |-> FALSE, error |-> ""])

\* interpret(program): [I, returned, thrown, output, hasError, error]: the
\* object afterwards and, when the call returned, the result { output, error? }
\* (hasError: the result has an error field); thrown: an exception left the
\* call, with its message in error
interpret(I0, program) ==
  Bind(visitProgram([I0 EXCEPT !.output = <<>>], program), LAMBDA r :
    CASE r.kind = "ok" ->
           [I |-> r.I, returned |-> TRUE, thrown |-> FALSE,
            output |-> r.I.output, hasError |-> FALSE, error |-> ""]
      [] r.kind \in {"error", "return"} ->
           \* catch (error): no EasyLangError is thrown while interpreting
           [I |-> r.I, returned |-> TRUE, thrown |-> FALSE,
            output |-> r.I.output, hasError |-> TRUE, error |-> r.message]
      [] OTHER ->
           [I |-> r.I, returned |-> FALSE, thrown |-> FALSE,
            output |-> <<>>, hasError |-> FALSE, error |-> ""])

(***************************************************************************)
(* The two front ends.  The editor page (App) keeps the code, and the      *)
(* output and error of the last run; every run uses a new Interpreter.     *)
(* The REPL keeps one Interpreter for the session.                         *)
(***************************************************************************)

\* new Lexer(source).tokenize() and new Parser(tokens).parse(), as both front
\* ends call them inside their try: [ok, program, error]
Compile(source) ==
  LET L == Lx_tokenize(Lexer(source))
      p == Ps_parse(L.tokens)
      none == [type |-> "Program", body |-> <<>>,
               position |-> [line |-> 1, column |-> 1]]
  IN  IF L.error.thrown THEN [ok |-> FALSE, program |-> none, error |-> L.error]
      ELSE IF ~p.ok THEN [ok |-> FALSE, program |-> none, error |-> p.error]
      ELSE [ok |-> TRUE, program |-> p.node, error |-> NoError]

MaxRange == 3

MaxCommands == 3

ScenarioC == "agar 5 > 10:\n    likho \"a\"\nwarna:\n    likho \"b\""

ScenarioE == "system add(a, b):\n    return a + b\nlikho add(2,3)"

RangeLoop(n) == "dohrana i in range(" \o ToString(n) \o "):\n    likho i"

PartialOutput == "likho 1\nlikho 2\nlikho y\nlikho 3"

PartialOutputInCall ==
  "banao x = 4\nlikho x\nf ka system (d) { likho d return x / d }\nlikho f(2)\nlikho f(0)\nlikho 9"

LoopScope(name) ==
  "agar sach:\n    banao s = 10\n    dohrana i in range(1):\n        likho s\n"
  \o "        s = s + 1\n        banao t = 5\n    likho s\n    likho " \o name

Closures ==
  "banao a = 99\nouter ka system (a) { inner ka system () { return a } return inner }\n"
  \o "banao g = outer(1)\nbanao h = outer(2)\nlikho g()\nlikho h()\nlikho a"

WhileCount == "banao n = 0\njab tak n < 3:\n    likho n\n    n = n + 1"

\* Scenario D and other divisions by a zero
ScenarioD == "banao x = 5\nlikho x / 0"

DivisionSources ==
  {ScenarioD, "likho 1 / 0", "likho 0 / 0", "banao z = 0.0\nlikho 3 / z",
   "likho 7\nlikho 1 / (2 - 2)\nlikho 8"}

\* The arrow-style declaration of the language reference, and its use
ArrowExample ==
  "add ka system = (a, b) {\n    return a + b\n}\nbanao result = add(5, 3)\nlikho result"

\* One program for each kind of failure of a run
FailureSources ==
  {"likho y", "banao x = 1\nbanao x = 2", "sada k = 1\nk = 2", "likho 1 - \"a\"",
   "f ka system (a) { return a }\nlikho f(1, 2)", "banao x = 1\nlikho x(1)",
   "likho 1 / 0", "dohrana i in 5:\n    likho i", "banao x = puchho \"?\"",
   "likho 7\nreturn 5"}

\* A while-loop, inside a block, whose body fails in its first iteration
WhileBreak(fail) ==
  "agar sach:\n    banao i = 0\n    jab tak i < 3:\n        likho i\n"
  \o "        i = i + 1\n        " \o fail \o "\n        likho 99\n"
  \o "    likho \"after\"\n    likho i"

\* Statements that raise an error: a division by zero, two undefined names,
\* a redeclaration, a type error, a call of an undefined function
BodyFailures ==
  {"likho 1 / 0", "likho y", "banao i = 7", "likho 1 - \"a\"", "k = 1", "boom()"}

\* A return in the body of a while-loop of a function
WhileReturn ==
  "agar sach:\n    system f():\n        jab tak sach:\n            likho 1\n"
  \o "            return 7\n            likho 2\n        likho 98\n"
  \o "        return 8\n    likho f()\n    likho 9"

WhileSources == {WhileBreak(fail) : fail \in BodyFailures} \cup {WhileReturn}

\* A function f(a) with the given body lines, called once with 1
FunctionCall(body) ==
  "agar sach:\n    system f(a):\n" \o body \o "    likho f(1)\n    likho 9"

\* Bodies that return directly, inside an if, a while-loop, a for-loop and
\* all three nested, that end without a return, and that return no value
ReturningBodies ==
  [kind \in {"direct", "if", "while", "for", "nested", "end", "bare"} |->
     CASE kind = "direct" -> "        return a + 1\n        likho 98\n"
       [] kind = "if" ->
            "        agar a > 0:\n            return a + 1\n"
            \o "        likho 98\n        return 0\n"
       [] kind = "while" ->
            "        jab tak sach:\n            return a + 1\n"
            \o "            likho 97\n        likho 98\n"
       [] kind = "for" ->
            "        dohrana j in range(3):\n            likho j\n"
            \o "            return a + j + 1\n        likho 98\n"
       [] kind = "nested" ->
            "        agar sach:\n            jab tak sach:\n"
            \o "                dohrana j in range(2):\n"
            \o "                    return a + 1\n                likho 96\n"
            \o "            likho 97\n        likho 98\n"
       [] kind = "end" -> "        likho a\n"
       [] kind = "bare" -> "        likho a\n        return\n        likho 98\n"]

ReturnSources == {FunctionCall(ReturningBodies[kind]) : kind \in DOMAIN ReturningBodies}

\* Programs that execute a return outside any function call, each with the
\* lines printed before it
TopLevelReturns ==
  [source \in {"likho 7\nreturn 5", "likho 7\nreturn 5\nlikho 8",
               "likho 1\nreturn\nlikho 2", "return 1 + 1\nlikho 2",
               "agar sach:\n    likho 1\n    return 3\n    likho 2"} |->
     CASE substring(source, 0, 7) = "likho 7" -> <<"7">>
       [] substring(source, 0, 6) = "return" -> <<>>
       [] OTHER -> <<"1">>]

\* A while-loop whose body declares a variable, under several conditions
WhileDeclare(condition) ==
  "agar sach:\n    banao i = 0\n    jab tak " \o condition \o ":\n"
  \o "        likho \"before\"\n        i = i + 1\n        banao t = i\n"
  \o "        likho \"after\"\n    likho i"

LoopConditions == {"i < 3", "sach", "i < 2", "i < 1", "i < 0"}

\* The programs typed into the editor
EditorSources ==
  {ScenarioC, ScenarioE, PartialOutput, PartialOutputInCall, Closures, WhileCount,
   "likho \"abc", "likho 1 +"}
  \cup {RangeLoop(n) : n \in 0..MaxRange}
  \cup {LoopScope(name) : name \in {"t", "i", "s"}}
  \cup FailureSources \cup DivisionSources \cup {ArrowExample} \cup WhileSources
  \cup ReturnSources \cup DOMAIN TopLevelReturns
  \cup {WhileDeclare(condition) : condition \in LoopConditions}

EditorPrograms == [source \in EditorSources |-> Compile(source)]

\* The lines typed into the REPL
Commands ==
  {"sada k = 1", "f ka system (k, k) { return k }", "f(5, 6)", "likho k", "k = 2",
   "g ka system () { k = 3 }", "g()", "likho k +", "  ",
   "banao r = range(-2)", "banao q = range(2.5)"}

CommandPrograms == [input \in Commands |-> Compile(input)]

RECURSIVE trimStart(_)
trimStart(s) ==
  IF s # "" /\ Head(s) \in {" ", "\t", "\n", "\r"} THEN trimStart(Tail(s)) ELSE s

RECURSIVE trimEnd(_)
trimEnd(s) ==
  IF s # "" /\ charAt(s, Len(s) - 1) \in {" ", "\t", "\n", "\r"}
  THEN trimEnd(substring(s, 0, Len(s) - 1)) ELSE s

\* String.prototype.trim
trim(s) == trimEnd(trimStart(s))

RECURSIVE join(_, _)
\* Array.prototype.join
join(lines, separator) ==
  IF lines = <<>> THEN ""
  ELSE IF Len(lines) = 1 THEN lines[1]
  ELSE lines[1] \o separator \o join(Tail(lines), separator)

VARIABLES
  code,           \* App: the text in the editor
  output,         \* App: the lines shown in the console
  error,          \* App: the error shown, <<>> (undefined) or <<message>>
  codeToRun,      \* the argument of the executeCode call whose result the
                  \* console shows, <<>> when it shows none
  interpreter,    \* REPL: interpreter.current
  history,        \* REPL: the entries { input, output?, error? }
  commandHistory, \* REPL: the inputs entered
  lexer,          \* the Lexer object of a compilation, <<>> before new Lexer
  tokens,         \* const tokens = lexer.tokenize(): <<>> until it returns
  ast,            \* const ast = parser.parse(): <<>> until it returns or throws
  host,           \* an Interpreter made with an input callback, <<>> before
  hostResult      \* const result = host.interpret(program): <<>> until then

vars ==
  <<code, output, error, codeToRun, interpreter, history, commandHistory,
    lexer, tokens, ast, host, hostResult>>

appVars == <<code, output, error, codeToRun>>

replVars == <<interpreter, history, commandHistory>>

compilerVars == <<lexer, tokens, ast>>

hostVars == <<host, hostResult>>

Init ==
  /\ code \in EditorSources
  /\ output = <<>>
  /\ error = <<>>
  /\ codeToRun = <<>>
  /\ interpreter = Interpreter(<<>>)
  /\ history = <<>>
  /\ commandHistory = <<>>
  /\ lexer = <<>>
  /\ tokens = <<>>
  /\ ast = <<>>
  /\ host = <<>>
  /\ hostResult = <<>>

\* CodeEditor onChange
setCode(source) ==
  /\ code' = source
  /\ UNCHANGED <<output, error, codeToRun>>
  /\ UNCHANGED replVars
  /\ UNCHANGED compilerVars
  /\ UNCHANGED hostVars

\* App.executeCode(), the Run button: codeToRun defaults to code.  A run that
\* does not come back changes nothing.
executeCode ==
  \E source \in EditorSources : \E compiled \in {EditorPrograms[source]} :
    \E result \in {interpret(Interpreter(<<>>), compiled.program)} :
      /\ source = code
      /\ compiled.ok => result.returned \/ result.thrown
      /\ IF compiled.ok /\ ~result.thrown
         THEN /\ output' = result.output
              /\ error' = IF result.hasError THEN <<result.error>> ELSE <<>>
         ELSE /\ output' = <<>>
              /\ error' = <<IF compiled.ok THEN result.error
                            ELSE compiled.error.message>>
      /\ codeToRun' = <<code>>
      /\ UNCHANGED code
      /\ UNCHANGED replVars
      /\ UNCHANGED compilerVars
      /\ UNCHANGED hostVars

\* App.clearOutput
clearOutput ==
  /\ output' = <<>>
  /\ error' = <<>>
  /\ codeToRun' = <<>>
  /\ UNCHANGED code
  /\ UNCHANGED replVars
  /\ UNCHANGED compilerVars
  /\ UNCHANGED hostVars

\* The entry of a command whose try block threw
caughtEntry(input, message) ==
  [input |-> input, output |-> <<>>, error |-> <<message>>]

\* The entry of a command that ran: { input, output: join, error: result.error }
resultEntry(input, result) ==
  [input |-> input, output |-> <<join(result.output, "\n")>>,
   error |-> IF result.hasError THEN <<result.error>> ELSE <<>>]

\* REPL.executeCommand(input)
executeCommand(input) ==
  \E compiled \in {CommandPrograms[input]} :
    \E result \in {interpret(interpreter, compiled.program)} :
      /\ trim(input) # ""
      /\ Len(commandHistory) < MaxCommands
      /\ compiled.ok => result.returned \/ result.thrown
      /\ commandHistory' = Append(commandHistory, input)
      /\ IF compiled.ok
         THEN /\ interpreter' = result.I
              /\ history' = Append(history,
                                   IF result.thrown
                                   THEN caughtEntry(input, result.error)
                                   ELSE resultEntry(input, result))
         ELSE /\ interpreter' = interpreter
              /\ history' = Append(history,
                                   caughtEntry(input, compiled.error.message))
      /\ UNCHANGED appVars
      /\ UNCHANGED compilerVars
      /\ UNCHANGED hostVars

\* REPL.clearREPL
clearREPL ==
  /\ history' = <<>>
  /\ commandHistory' = <<>>
  /\ interpreter' = Interpreter(<<>>)
  /\ UNCHANGED appVars
  /\ UNCHANGED compilerVars
  /\ UNCHANGED hostVars

\* The editor page
Next ==
  \/ \E source \in EditorSources : setCode(source)
  \/ executeCode
  \/ clearOutput

Spec == Init /\ [][Next]_vars

\* A REPL session
NextREPL ==
  \/ \E input \in Commands : executeCommand(input)
  \/ clearREPL

\* The editor is left alone during the session
InitREPL == Init /\ code = ScenarioC

SpecREPL == InitREPL /\ [][NextREPL]_vars

(***************************************************************************)
(* One compilation, as both front ends run it: new Lexer(source),          *)
(* tokenize(), new Parser(tokens).parse().                                 *)
(***************************************************************************)

RECURSIVE Tabify(_, _)
\* The source with every four spaces of a line's indentation typed as a tab
Tabify(s, atLineStart) ==
  IF s = "" THEN ""
  ELSE IF atLineStart /\ substring(s, 0, 4) = "    "
  THEN "\t" \o Tabify(substring(s, 4, Len(s)), TRUE)
  ELSE charAt(s, 0) \o Tabify(substring(s, 1, Len(s)), charAt(s, 0) = "\n")

\* Programs with blocks, indented with spaces
IndentedSources ==
  {ScenarioC, ScenarioE, WhileCount,
   "agar sach:\n    likho 1\n    likho 2",
   "agar sach:\n    agar sach:\n        likho 1\n    likho 2\nlikho 3",
   "agar sach:\n    agar sach:\n        likho 1\n",
   "agar sach:\n        likho 1\n    likho 2",
   "dohrana i in range(1):\n    likho \"a b\"\n    likho i"}

\* Lines around the two-word keywords
KeywordSources ==
  {"jab tak x", "jab taken", "jab  tak", "jab x", "jab tak", "jab\ntak",
   "ka system", "ka systems", "ka  system", "ka x", "f ka system () { }"}

\* Statements whose parse fails, at the top level and inside blocks
BrokenSources ==
  {"likho 1 +", "banao = 1", "likho (1", "agar sach\n    likho 1",
   "agar sach:\n    likho 1 +\n    likho 2",
   "agar sach:\n    agar sach:\n        banao 5\n    likho 2",
   "f ka system (a) { likho ) }", "likho 1\nlikho ) 2\nlikho 3"}

\* Expressions, one operator chain or one pair of neighbouring levels each
ExpressionSources ==
  {"likho 1 - 2 - 3", "likho 8 / 4 / 2", "likho 2 ** 3 ** 2",
   "likho a ya b ya c", "likho a aur b aur c", "likho a == b != c",
   "likho a < b <= c", "likho a ya b aur c", "likho a aur b == c",
   "likho a == b < c", "likho a < b + c", "likho a + b * c",
   "likho a * b ** c", "likho - a ** b", "likho a ** b * c",
   "likho a * b + c", "likho nahi a == b"}

\* Argument lists after an identifier, a literal, a call and a parenthesis
CallSources ==
  {"f(1)", "likho f(1, 2)", "likho range(3)", "5(1)", "f(1)(2)", "(f)(1)",
   "likho \"a\"(1)", "likho f()"}

\* Arrow-style declarations in several layouts of the body, each with the
\* system-style declaration of the same name, parameters and body
ArrowLayouts ==
  [source \in {"add ka system (a, b) { return a + b }",
               "add ka system (a, b) {\nreturn a + b\n}",
               "add ka system (a, b) {\n    return a + b\n}",
               "f ka system (a) {\nlikho a\nreturn a\n}",
               "f ka system (a) {\n    likho a\n    return a\n}",
               "g ka system () { likho 1 }"} |->
     CASE substring(source, 0, 1) = "a" -> "system add(a, b):\n    return a + b"
       [] substring(source, 0, 1) = "f" -> "system f(a):\n    likho a\n    return a"
       [] OTHER -> "system g():\n    likho 1"]

FunctionSources ==
  DOMAIN ArrowLayouts \cup {ArrowLayouts[source] : source \in DOMAIN ArrowLayouts}

\* Lines that start with a carriage return, and lines that end with one
CarriageSources ==
  {"\rlikho 1", "likho 1\n\rlikho 2", "agar sach:\r\n    likho 1\r\n\r\nlikho 2",
   "agar sach:\n    likho 1\n\r    likho 2", "likho 1 \r\n", "likho 1\n\r"}

\* Comments, a string over two lines, and the characters the lexer rejects
LexicalSources ==
  {"# note\nlikho 1.5 # x", "likho \"a\nb\"\n  likho 2", "likho \"abc",
   "likho 1 ! 2", "likho @", "\t\r likho 1 <= 2 != 3"}

\* The sources compiled
CompilerSources ==
  IndentedSources \cup {Tabify(source, TRUE) : source \in IndentedSources}
  \cup KeywordSources \cup BrokenSources \cup ExpressionSources \cup CallSources
  \cup FunctionSources \cup CarriageSources \cup LexicalSources

\* tokenize() on the Lexer object of each source
TokenizedSources == [source \in CompilerSources |-> Lx_tokenize(Lexer(source))]

\* parse() on the tokens that tokenize() returns for each source
ParsedSources ==
  [source \in CompilerSources |->
     LET L == TokenizedSources[source]
     IN  IF L.error.thrown THEN PsErr(L.error, 0) ELSE Ps_parse(L.tokens)]

\* const lexer = new Lexer(source), at the start of a compilation
newLexer(source) ==
  /\ lexer' = <<Lexer(source)>>
  /\ tokens' = <<>>
  /\ ast' = <<>>
  /\ UNCHANGED appVars
  /\ UNCHANGED replVars
  /\ UNCHANGED hostVars

\* const tokens = lexer.tokenize(): the one call made on a Lexer object.  A
\* call that throws leaves tokens unassigned and the error in the object.
tokenize ==
  \E source \in CompilerSources : \E L \in {TokenizedSources[source]} :
    /\ lexer = <<Lexer(source)>>
    /\ lexer' = <<L>>
    /\ tokens' = IF L.error.thrown THEN <<>> ELSE <<L.tokens>>
    /\ UNCHANGED ast
    /\ UNCHANGED appVars
    /\ UNCHANGED replVars
    /\ UNCHANGED hostVars

\* new Parser(tokens).parse(): the Program, or the error thrown
parse ==
  \E source \in CompilerSources : \E result \in {ParsedSources[source]} :
    /\ tokens # <<>>
    /\ ast = <<>>
    /\ source = lexer[1].source
    /\ ast' = <<result>>
    /\ UNCHANGED <<lexer, tokens>>
    /\ UNCHANGED appVars
    /\ UNCHANGED replVars
    /\ UNCHANGED hostVars

NextCompiler ==
  \/ \E source \in CompilerSources : newLexer(source)
  \/ tokenize
  \/ parse

\* The editor and the REPL are left alone during the compilation
InitCompiler == Init /\ code = ScenarioE

SpecCompiler == InitCompiler /\ [][NextCompiler]_vars

(***************************************************************************)
(* A program that embeds the interpreter and answers its prompts: it makes *)
(* an Interpreter with an input callback and calls interpret on it.        *)
(***************************************************************************)

\* What the input callback returns
Replies ==
  {"12", "3.5", "-4", "1e2", ".5", "abc", "", "Infinity", "12abc", "1.2.3", "7up"}

\* Programs that read an input
InputSources ==
  {"banao x = puchho \"?\"", "likho puchho \"?\"", "likho x",
   "banao y = puchho \"n\" + 1"}

InputPrograms == [source \in InputSources |-> Compile(source)]

\* new Interpreter(prompt => reply)
newInterpreter(reply) ==
  /\ host' = <<Interpreter(<<reply>>)>>
  /\ hostResult' = <<>>
  /\ UNCHANGED appVars
  /\ UNCHANGED replVars
  /\ UNCHANGED compilerVars

\* const result = host.interpret(program)
interpretProgram ==
  \E source \in InputSources : \E compiled \in {InputPrograms[source]} :
    \E I \in {host[k] : k \in 1..Len(host)} :
    \E r \in {interpret(I, compiled.program)} :
      /\ r.returned
      /\ host' = <<r.I>>
      /\ hostResult' = <<[output |-> r.output,
                          error |-> IF r.hasError THEN <<r.error>> ELSE <<>>]>>
      /\ UNCHANGED appVars
      /\ UNCHANGED replVars
      /\ UNCHANGED compilerVars

NextHost ==
  \/ \E reply \in Replies : newInterpreter(reply)
  \/ interpretProgram

\* The editor and the REPL are left alone
InitHost == Init /\ code = ScenarioD

SpecHost == InitHost /\ [][NextHost]_vars

(***************************************************************************)
(* Properties.  Those of the editor page are stated of Spec, those of a    *)
(* REPL session of SpecREPL.                                               *)
(***************************************************************************)

\* The lines "0", "1", ..., "n-1"
Numerals(n) == [k \in 1..n |-> ToString(k - 1)]

IsPrefix(s, t) == Len(s) <= Len(t) /\ SubSeq(t, 1, Len(s)) = s

ProgramOf(statements) ==
  [type |-> "Program", body |-> statements, position |-> [line |-> 1, column |-> 1]]

LastEntry == history[Len(history)]

\* C1: running scenario C (an if whose `warna:` line is at indentation 0
\* after the indented then-block) gives the output ["b"] and no error.
C1_ScenarioC_RunsTheElseBranch ==
  codeToRun = <<ScenarioC>> => output = <<"b">> /\ error = <<>>

\* C2: running scenario E (a statement at indentation 0 after the indented
\* body of a system-style function) gives the output ["5"] and no error: the
\* statement is a top-level statement, not part of the function body.
C2_ScenarioE_CallsAtTopLevel ==
  codeToRun = <<ScenarioE>> => output = <<"5">> /\ error = <<>>

\* C3: for every n >= 0 a for-loop over range(n) whose body prints the loop
\* variable prints 0, 1, ..., n-1 in that order and ends without error.
C3_ForLoopRunsItsBodyNTimes ==
  \A n \in 0..MaxRange :
    codeToRun = <<RangeLoop(n)>> => output = Numerals(n) /\ error = <<>>

\* C4: every call and every for-loop restores the environment that was
\* current before it on every exit, so whenever interpret has returned the
\* current environment of the interpreter is the global environment.
C4_EnvironmentIsGlobalBetweenCalls == interpreter.environment = globals

\* The programs interpret is tried on in every state of a session: one for
\* each kind of failure, and the commands of the session
TriedPrograms ==
  {EditorPrograms[source].program : source \in FailureSources}
  \cup {CommandPrograms[input].program :
          input \in {c \in Commands : CommandPrograms[c].ok}}

\* C5: interpret never lets an exception through to its caller: in every
\* state of the interpreter, a program whose evaluation fails (with an Error
\* or with a return signal that reaches the top level) makes interpret return
\* a result whose error field holds the failure's message.
C5_InterpretCatchesEveryFailure ==
  \A program \in TriedPrograms :
    LET failure == visitProgram([interpreter EXCEPT !.output = <<>>], program)
        result == interpret(interpreter, program)
    IN  /\ ~result.thrown
        /\ failure.kind \in {"error", "return"} =>
             result.returned /\ result.hasError /\ result.error = failure.message

C5_Witness ==
  /\ history # <<>>
  /\ LastEntry.input = "k = 2"
  /\ LastEntry.output = <<"">>
  /\ LastEntry.error = <<"Cannot reassign constant 'k'">>

RECURSIVE CallsAFunction(_)
\* The expression has a call of a user function in it
CallsAFunction(expression) ==
  CASE expression.type = "CallExpression" -> TRUE
    [] expression.type = "BinaryExpression" ->
         CallsAFunction(expression.left) \/ CallsAFunction(expression.right)
    [] expression.type = "UnaryExpression" -> CallsAFunction(expression.operand)
    [] OTHER -> FALSE

\* A statement that runs no other statement
IsSimple(statement) ==
  CASE statement.type \in {"VariableDeclaration", "Assignment", "PrintStatement"} ->
         ~CallsAFunction(statement.value)
    [] statement.type \in {"Identifier", "Literal", "BinaryExpression",
                           "UnaryExpression", "InputStatement"} ->
         ~CallsAFunction(statement)
    [] OTHER -> FALSE

\* C6: when a run ends with an error, the output shown is what the statements
\* before the failing one printed: the program cut before its failing
\* top-level statement runs without error and prints a prefix of the output,
\* the statements after the failing one add nothing, and when the failing
\* statement runs no other statement the output is exactly that prefix.
C6_OutputIsWhatRanBeforeTheFailure ==
  \A source \in EditorSources :
    (codeToRun = <<source>> /\ EditorPrograms[source].ok /\ error # <<>>) =>
      LET body == EditorPrograms[source].program.body
      IN  \E k \in 1..Len(body) :
            LET before == interpret(Interpreter(<<>>), ProgramOf(SubSeq(body, 1, k - 1)))
                upTo == interpret(Interpreter(<<>>), ProgramOf(SubSeq(body, 1, k)))
            IN  /\ before.returned /\ ~before.hasError
                /\ upTo.returned /\ upTo.hasError
                /\ <<upTo.error>> = error
                /\ upTo.output = output
                /\ IsPrefix(before.output, output)
                /\ IsSimple(body[k]) => output = before.output

C6_Witness ==
  /\ codeToRun = <<PartialOutput>>
  /\ output = <<"1", "2">>
  /\ error = <<"Undefined variable 'y'">>

\* C7: once `sada k = 1` has declared k in the global environment, in every
\* later call of the session the command `k = 2` fails with "Cannot reassign
\* constant 'k'" and the command `likho k` prints the declared value.
C7_ConstantKeepsItsValue ==
  "k" \in interpreter.envs[globals].constants =>
    LET write == interpret(interpreter, CommandPrograms["k = 2"].program)
        read == interpret(interpreter, CommandPrograms["likho k"].program)
    IN  /\ write.hasError /\ write.error = "Cannot reassign constant 'k'"
        /\ ~read.hasError /\ read.output = <<"1">>

\* C8: a variable declared in the body of a for-loop, and the loop variable,
\* cannot be read after the loop (the read fails with "Undefined variable"),
\* while a variable declared before the loop is read and assigned in the body
\* and keeps the assigned value after the loop.
C8_LoopBodyScope ==
  /\ \A name \in {"t", "i"} :
       codeToRun = <<LoopScope(name)>> =>
         /\ output = <<"10", "11">>
         /\ error = <<"Undefined variable '" \o name \o "'">>
  /\ codeToRun = <<LoopScope("s")>> => output = <<"10", "11", "11">> /\ error = <<>>

C8_Witness ==
  /\ codeToRun = <<LoopScope("t")>>
  /\ output = <<"10", "11">>
  /\ error = <<"Undefined variable 't'">>

\* C9: a function declared in the body of another function reads its free
\* names in the environment of the outer call that declared it: called at top
\* level after the outer calls have returned, where a is 99, the inner
\* functions made by outer(1) and outer(2) return 1 and 2.
C9_ClosuresAreLexical ==
  codeToRun = <<Closures>> => output = <<"1", "2", "99">> /\ error = <<>>

C9_Witness == codeToRun = <<Closures>> /\ output = <<"1", "2", "99">>

\* C10: in a session the global bindings made by earlier calls are what every
\* later call reads under their names, each call returns only the lines it
\* printed itself (no command here prints more than one), and the interpreter
\* made by clearing the session has no binding but the built-in.
C10_GlobalBindingsPersist ==
  /\ \A name \in DOMAIN interpreter.envs[globals].values :
       LET read == Env_get(interpreter.envs, interpreter.environment, name)
       IN  read.ok /\ read.value = interpreter.envs[globals].values[name]
  /\ Len(interpreter.output) <= 1
  /\ history = <<>> => interpreter = Interpreter(<<>>)

\* C12: a division of a number by a number that is zero gives no value: the
\* run ends with the error "Division by zero", the print of the quotient
\* adds no line, and the output is what was printed before (for scenario D
\* nothing).
C12_DivisionByZeroIsAnError ==
  \A source \in DivisionSources :
    codeToRun = <<source>> =>
      /\ error = <<"Division by zero">>
      /\ output = IF source = "likho 7\nlikho 1 / (2 - 2)\nlikho 8"
                  THEN <<"7">> ELSE <<>>

C12_Witness ==
  codeToRun = <<ScenarioD>> /\ output = <<>> /\ error = <<"Division by zero">>

\* C13: the arrow-style declaration of the language reference is accepted as
\* a declaration of add, so that the program printing add(5, 3) prints 8
\* without error.
C13_ArrowExampleRuns ==
  codeToRun = <<ArrowExample>> => output = <<"8">> /\ error = <<>>

\* C22: an error raised by a statement of a while-loop body, other than a
\* return signal, ends the loop at once: the rest of the iteration is
\* skipped, the result has no error and the statements after the loop run.
\* A return in the body of a loop of a function ends the call with its value.
C22_WhileLoopEndsOnABodyError ==
  /\ \A fail \in BodyFailures :
       codeToRun = <<WhileBreak(fail)>> =>
         output = <<"0", "after", "1">> /\ error = <<>>
  /\ codeToRun = <<WhileReturn>> => output = <<"1", "7", "9">> /\ error = <<>>

C22_Witness ==
  /\ codeToRun = <<WhileBreak("likho y")>>
  /\ output = <<"0", "after", "1">>
  /\ error = <<>>

\* What a run of FunctionCall(ReturningBodies[kind]) prints
ReturnedOutputs ==
  [kind \in DOMAIN ReturningBodies |->
     CASE kind \in {"direct", "if", "while", "nested"} -> <<"2", "9">>
       [] kind = "for" -> <<"0", "2", "9">>
       [] OTHER -> <<"1", "jhooth", "9">>]

\* C23: in a call of a user function, `return e` executed directly in the
\* body or inside an if, a while-loop or a for-loop of it ends the call with
\* the value of e and no later statement of the body runs; a body that ends
\* without a return, or executes a bare `return`, yields boolean false.
C23_ReturnEndsTheCall ==
  \A kind \in DOMAIN ReturningBodies :
    codeToRun = <<FunctionCall(ReturningBodies[kind])>> =>
      output = ReturnedOutputs[kind] /\ error = <<>>

C23_Witness ==
  /\ codeToRun = <<FunctionCall(ReturningBodies["nested"])>>
  /\ output = <<"2", "9">>
  /\ error = <<>>

\* C24: every range value made during evaluation, here every one bound in an
\* environment of the session's interpreter, holds a bound that is an integer
\* and is not negative.
C24_RangeBoundIsANaturalNumber ==
  \A e \in 1..Len(interpreter.envs) :
    \A name \in DOMAIN interpreter.envs[e].values :
      LET v == interpreter.envs[e].values[name]
      IN  v.type = "range" => v.value[2] = 1 /\ v.value[1] >= 0

\* C28: a return executed outside any function call stops the program: no
\* later top-level statement runs, the output so far is returned, and the
\* result has an error field whose message is the empty string.
C28_TopLevelReturnStopsTheProgram ==
  \A source \in DOMAIN TopLevelReturns :
    codeToRun = <<source>> => output = TopLevelReturns[source] /\ error = <<"">>

C28_Witness ==
  /\ codeToRun = <<"likho 7\nreturn 5\nlikho 8">>
  /\ output = <<"7">>
  /\ error = <<"">>

\* The number of lines of the output that are the given text
Occurrences(lines, text) == Cardinality({k \in 1..Len(lines) : lines[k] = text})

\* What a run of WhileDeclare(condition) prints
DeclareOutputs ==
  [condition \in LoopConditions |->
     CASE condition = "i < 0" -> <<"0">>
       [] condition = "i < 1" -> <<"before", "after", "1">>
       [] OTHER -> <<"before", "after", "before", "2">>]

\* C29: a while-loop whose body declares with banao a name not yet defined
\* completes its first iteration, fails on the declaration in its second
\* and ends without an error: whatever the condition, the statements before
\* the declaration run at most twice and those after it at most once.
C29_DeclarationEndsTheLoop ==
  \A condition \in LoopConditions :
    codeToRun = <<WhileDeclare(condition)>> =>
      /\ error = <<>>
      /\ Occurrences(output, "before") <= 2
      /\ Occurrences(output, "after") <= 1
      /\ output = DeclareOutputs[condition]

C29_Witness ==
  /\ codeToRun = <<WhileDeclare("sach")>>
  /\ output = <<"before", "after", "before", "2">>
  /\ error = <<>>

(***************************************************************************)
(* Properties of a compilation, stated of SpecCompiler.                    *)
(***************************************************************************)

\* tokenize() has run on the Lexer object (it returned or threw)
HasRun == lexer # <<>> /\ (tokens # <<>> \/ lexer[1].error.thrown)

\* The tokens without their positions
TokenKinds(ts) == [i \in 1..Len(ts) |-> <<ts[i].type, ts[i].value>>]

TokenValues(ts) == [i \in 1..Len(ts) |-> ts[i].value]

\* How many of the first k tokens are of the type
Count(ts, k, type) == Cardinality({i \in 1..k : ts[i].type = type})

RECURSIVE LineStart(_, _)
\* The offset in the source of the first character of the line (1-based)
LineStart(s, line) ==
  IF line <= 1 THEN 0
  ELSE LET rest == LineStart(s, line - 1)
           RECURSIVE afterNewline(_)
           afterNewline(i) ==
             IF i >= Len(s) THEN Len(s)
             ELSE IF charAt(s, i) = "\n" THEN i + 1 ELSE afterNewline(i + 1)
       IN  afterNewline(rest)

RECURSIVE IndentWidthFrom(_, _)
IndentWidthFrom(s, i) ==
  IF charAt(s, i) = " " THEN 1 + IndentWidthFrom(s, i + 1)
  ELSE IF charAt(s, i) = "\t" THEN 4 + IndentWidthFrom(s, i + 1)
  ELSE 0

\* The indent width of a line of the source: a space is 1, a tab is 4
IndentWidth(s, line) == IndentWidthFrom(s, LineStart(s, line))

RECURSIVE OpenIndents(_, _)
\* The indent stack after the first k tokens: INDENT pushes its width,
\* DEDENT pops
OpenIndents(ts, k) ==
  IF k = 0 THEN <<0>>
  ELSE LET before == OpenIndents(ts, k - 1)
       IN  IF ts[k].type = "INDENT" THEN Append(before, Len(ts[k].value))
           ELSE IF ts[k].type = "DEDENT" /\ Len(before) > 1 THEN Pop(before)
           ELSE before

\* Token i is the first token of its line that is text of the line
IsFirstOfLine(ts, i) ==
  /\ ts[i].type \notin {"NEWLINE", "INDENT", "DEDENT", "EOF"}
  /\ i = 1 \/ ts[i - 1].type \in {"NEWLINE", "INDENT", "DEDENT"}

\* C11: typing the indentation of a source with tabs, one for every four
\* spaces, gives the same tokens but for their positions (so the same INDENT
\* and DEDENT tokens at the same places), and the same error if any.
C11_TabsIndentAsFourSpaces ==
  \A source \in IndentedSources :
    (HasRun /\ lexer[1].source = Tabify(source, TRUE)) =>
      LET spaces == Lx_tokenize(Lexer(source))
      IN  /\ TokenKinds(lexer[1].tokens) = TokenKinds(spaces.tokens)
          /\ lexer[1].error.thrown = spaces.error.thrown
          /\ lexer[1].error.message = spaces.error.message

C11_Witness ==
  /\ tokens # <<>>
  /\ lexer[1].source = "agar sach:\n\tagar sach:\n\t\tlikho 1\n\tlikho 2\nlikho 3"
  /\ Count(tokens[1], Len(tokens[1]), "INDENT") = 2
  /\ Count(tokens[1], Len(tokens[1]), "DEDENT") = 2

\* C14: before the first token of every line the indent stack has been
\* popped, one DEDENT per level, until its top is the indent width of the
\* line; this includes the lines of width 0.
C14_DedentsBeforeEveryShallowerLine ==
  tokens # <<>> =>
    \A i \in 1..Len(tokens[1]) :
      IsFirstOfLine(tokens[1], i) =>
        Top(OpenIndents(tokens[1], i - 1))
          = IndentWidth(lexer[1].source, tokens[1][i].position.line)

\* C15: the tokens that tokenize returns end with EOF, the only EOF among
\* them, have as many DEDENT as INDENT tokens, and no prefix of them has more
\* DEDENT than INDENT tokens.
C15_IndentsAndDedentsBalance ==
  tokens # <<>> =>
    LET ts == tokens[1]
    IN  /\ ts[Len(ts)].type = "EOF"
        /\ Count(ts, Len(ts), "EOF") = 1
        /\ Count(ts, Len(ts), "DEDENT") = Count(ts, Len(ts), "INDENT")
        /\ \A k \in 0..Len(ts) : Count(ts, k, "INDENT") >= Count(ts, k, "DEDENT")

C15_Witness ==
  /\ tokens # <<>>
  /\ lexer[1].source = "agar sach:\n    agar sach:\n        likho 1\n"
  /\ Count(tokens[1], Len(tokens[1]), "DEDENT") = 2
  /\ tokens[1][Len(tokens[1])].type = "EOF"

\* The text of the source at a 1-based line and column, n characters long
TextAt(s, line, column, n) ==
  substring(s, LineStart(s, line) + column - 1, LineStart(s, line) + column - 1 + n)

\* C16: the column of every token that has a lexeme is the 1-based column of
\* the first character of the lexeme on its line (the opening quote of a
\* string literal, column 1 for an INDENT) and is at least 1.
C16_ColumnIsTheStartOfTheLexeme ==
  tokens # <<>> =>
    \A i \in 1..Len(tokens[1]) :
      LET t == tokens[1][i]
          line == t.position.line
          column == t.position.column
      IN  t.type \notin {"NEWLINE", "DEDENT", "EOF"} =>
            /\ column >= 1
            /\ CASE t.type = "INDENT" -> column = 1
                 [] t.type = "STRING" ->
                      TextAt(lexer[1].source, line, column, Len(t.value) + 2)
                        = "\"" \o t.value \o "\""
                 [] OTHER ->
                      TextAt(lexer[1].source, line, column, Len(t.value)) = t.value

RECURSIVE WordsFrom(_, _, _)
\* The words of a line of letters and spaces, from offset i on
WordsFrom(s, i, word) ==
  IF i >= Len(s) THEN (IF word = "" THEN <<>> ELSE <<word>>)
  ELSE IF charAt(s, i) = " "
  THEN (IF word = "" THEN <<>> ELSE <<word>>) \o WordsFrom(s, i + 1, "")
  ELSE WordsFrom(s, i + 1, word \o charAt(s, i))

\* The token values the two-word keywords call for: the first two words
\* as one when they are jab tak or ka system with one space between them
CompoundWords(s) ==
  LET words == WordsFrom(s, 0, "")
      pair == IF Len(words) >= 2 THEN words[1] \o " " \o words[2] ELSE ""
  IN  IF /\ pair \in {"jab tak", "ka system"}
         /\ substring(s, 0, Len(pair)) = pair
      THEN <<pair>> \o SubSeq(words, 3, Len(words))
      ELSE words

\* The sources of letters and spaces that start with jab or ka
WordSources ==
  {s \in KeywordSources :
     /\ \A i \in 0..(Len(s) - 1) : charAt(s, i) = " " \/ isAlpha(charAt(s, i))
     /\ charAt(s, 0) # " "}

\* C17: jab and tak (ka and system) become the one token 'jab tak' ('ka
\* system') exactly when the second word follows after one space and is that
\* whole word; otherwise each word is a token of its own.
C17_CompoundKeywordsNeedTheExactWord ==
  \A source \in WordSources :
    (tokens # <<>> /\ lexer[1].source = source) =>
      TokenValues(SubSeq(tokens[1], 1, Len(tokens[1]) - 1)) = CompoundWords(source)

\* C18: when parse fails, the error that leaves it is the error as it was
\* raised: every statement level whose body raises an error throws that same
\* error (message, line, column) after its synchronize step, and the error of
\* parse is the error of such a body, placed at a token of the input.
C18_ParseReportsTheFirstError ==
  (ast # <<>> /\ ~ast[1].ok) =>
    LET T == tokens[1]
        failing == {cur \in 0..(Len(T) - 2) : ~Ps_statementBody(T, cur).ok}
    IN  /\ \A cur \in failing :
             /\ ~Ps_statement(T, cur).ok
             /\ Ps_statement(T, cur).error = Ps_statementBody(T, cur).error
        /\ \E cur \in failing : ast[1].error = Ps_statementBody(T, cur).error
        /\ \E k \in 1..Len(T) :
             /\ ast[1].error.line = T[k].position.line
             /\ ast[1].error.column = T[k].position.column
        /\ ast[1].error.thrown

\* An error raised two statement levels deep, at the token 5 of line 3
C18_Witness ==
  /\ ast # <<>>
  /\ lexer[1].source = "agar sach:\n    agar sach:\n        banao 5\n    likho 2"
  /\ ~ast[1].ok
  /\ ast[1].error.message = "Expected variable name after banao"
  /\ ast[1].error.line = 3

RECURSIVE Shape(_)
\* An expression written with all its parentheses
Shape(node) ==
  CASE node.type = "BinaryExpression" ->
         "(" \o Shape(node.left) \o " " \o node.operator \o " "
             \o Shape(node.right) \o ")"
    [] node.type = "UnaryExpression" ->
         "(" \o node.operator \o " " \o Shape(node.operand) \o ")"
    [] node.type = "Identifier" -> node.name
    [] node.type = "Literal" /\ node.dataType = "number" -> NumberToString(node.value)
    [] OTHER -> "?"

\* The nesting of each expression of ExpressionSources
ExpectedShapes ==
  [source \in ExpressionSources |->
     CASE source = "likho 1 - 2 - 3" -> "((1 - 2) - 3)"
       [] source = "likho 8 / 4 / 2" -> "((8 / 4) / 2)"
       [] source = "likho 2 ** 3 ** 2" -> "(2 ** (3 ** 2))"
       [] source = "likho a ya b ya c" -> "((a ya b) ya c)"
       [] source = "likho a aur b aur c" -> "((a aur b) aur c)"
       [] source = "likho a == b != c" -> "((a == b) != c)"
       [] source = "likho a < b <= c" -> "((a < b) <= c)"
       [] source = "likho a ya b aur c" -> "(a ya (b aur c))"
       [] source = "likho a aur b == c" -> "(a aur (b == c))"
       [] source = "likho a == b < c" -> "(a == (b < c))"
       [] source = "likho a < b + c" -> "(a < (b + c))"
       [] source = "likho a + b * c" -> "(a + (b * c))"
       [] source = "likho a * b ** c" -> "(a * (b ** c))"
       [] source = "likho - a ** b" -> "((- a) ** b)"
       [] source = "likho a ** b * c" -> "((a ** b) * c)"
       [] source = "likho a * b + c" -> "((a * b) + c)"
       [] source = "likho nahi a == b" -> "((nahi a) == b)"]

\* C19: a chain of operators of one level nests to the left, a chain of **
\* nests to the right, and of two neighbouring levels the later one of
\* or, and, equality, relational, additive, multiplicative, power, unary
\* binds tighter.
C19_PrecedenceAndAssociativity ==
  \A source \in ExpressionSources :
    (ast # <<>> /\ lexer[1].source = source) =>
      /\ ast[1].ok
      /\ Len(ast[1].node.body) = 1
      /\ Shape(ast[1].node.body[1].value) = ExpectedShapes[source]

C19_Witness ==
  /\ ast # <<>>
  /\ lexer[1].source = "likho 2 ** 3 ** 2"
  /\ ast[1].ok
  /\ ast[1].node.body[1].value.right.type = "BinaryExpression"

RECURSIVE Callees(_)
RECURSIVE CalleesOfAll(_)
\* The callee names of the CallExpression nodes of a list of nodes
CalleesOfAll(nodes) ==
  IF nodes = <<>> THEN {} ELSE Callees(Head(nodes)) \cup CalleesOfAll(Tail(nodes))

\* The callee names of the CallExpression nodes in a node
Callees(node) ==
  CASE node.type = "CallExpression" -> {node.callee} \cup CalleesOfAll(node.arguments)
    [] node.type = "BinaryExpression" -> Callees(node.left) \cup Callees(node.right)
    [] node.type = "UnaryExpression" -> Callees(node.operand)
    [] node.type \in {"PrintStatement", "VariableDeclaration", "Assignment"} ->
         Callees(node.value)
    [] node.type = "ReturnStatement" -> CalleesOfAll(node.value)
    [] node.type = "IfStatement" ->
         Callees(node.condition) \cup CalleesOfAll(node.thenBranch)
           \cup (IF node.elseBranch = <<>> THEN {}
                 ELSE CalleesOfAll(node.elseBranch[1]))
    [] node.type = "WhileLoop" -> Callees(node.condition) \cup CalleesOfAll(node.body)
    [] node.type = "ForLoop" -> Callees(node.iterable) \cup CalleesOfAll(node.body)
    [] node.type \in {"FunctionDeclaration", "Program"} -> CalleesOfAll(node.body)
    [] OTHER -> {}

\* C20: every CallExpression of a Program that parse returns has the name of
\* an identifier (or range) as its callee, never an undefined name.
C20_CalleeIsAName ==
  (ast # <<>> /\ ast[1].ok) => Undefined \notin Callees(ast[1].node)

RECURSIVE RenderAll(_)
\* A statement of a function body written on one line, without positions
Render(node) ==
  CASE node.type = "PrintStatement" -> "likho " \o Shape(node.value)
    [] node.type = "ReturnStatement" ->
         IF node.value = <<>> THEN "return" ELSE "return " \o Shape(node.value[1])
    [] OTHER -> Shape(node)

RenderAll(nodes) ==
  IF nodes = <<>> THEN ""
  ELSE Render(Head(nodes)) \o ";" \o RenderAll(Tail(nodes))

\* C21: an arrow-style declaration, in whatever layout its body lines are
\* written between the braces, parses to a FunctionDeclaration with the name,
\* parameters and body statements of the system-style declaration and the
\* style tag arrow.
C21_ArrowDeclarationParsesAsSystem ==
  \A source \in DOMAIN ArrowLayouts :
    (ast # <<>> /\ lexer[1].source = source) =>
      /\ ast[1].ok
      /\ Len(ast[1].node.body) = 1
      /\ LET arrow == ast[1].node.body[1]
             system == ParsedSources[ArrowLayouts[source]].node.body[1]
         IN  /\ arrow.type = "FunctionDeclaration"
             /\ system.type = "FunctionDeclaration"
             /\ arrow.style = "arrow"
             /\ system.style = "system"
             /\ arrow.name = system.name
             /\ arrow.parameters = system.parameters
             /\ RenderAll(arrow.body) = RenderAll(system.body)

RECURSIVE Scans(_)
\* The Lexer object before each call of scanToken in tokenize's loop, and
\* after the last one
Scans(L) ==
  IF ~Lx_isAtEnd(L) /\ ~L.error.thrown THEN <<L>> \o Scans(Lx_scanToken(L))
  ELSE <<L>>

\* The scans of the source of the compilation
ScansOfSource == Scans(Lexer(lexer[1].source))

\* C26: tokenize ends on every source: a call of scanToken raises an error or
\* leaves the cursor further than before, except that a carriage return at
\* the start of a line is read again once, the cursor staying in place, and
\* is consumed by the next call.  So at most two calls are made for each
\* character of the source.
C26_EveryScanMovesTheCursor ==
  lexer # <<>> =>
    LET S == ScansOfSource
        source == lexer[1].source
    IN  /\ Len(S) <= 2 * Len(source) + 1
        /\ \A k \in 1..(Len(S) - 1) :
             \/ S[k + 1].error.thrown
             \/ IF S[k].column = 1 /\ charAt(source, S[k].current) = "\r"
                THEN /\ S[k + 1].current = S[k].current
                     /\ k + 2 <= Len(S) => S[k + 2].current > S[k + 1].current
                ELSE S[k + 1].current > S[k].current

\* A carriage return at the start of the second line, read twice
C26_Witness ==
  /\ tokens # <<>>
  /\ lexer[1].source = "likho 1\n\rlikho 2"
  /\ \E k \in 1..(Len(ScansOfSource) - 2) :
       /\ ScansOfSource[k + 1].current = ScansOfSource[k].current
       /\ ScansOfSource[k + 2].current = ScansOfSource[k].current + 1

\* The stack is not empty, starts with 0 and increases strictly
IsIndentStack(stack) ==
  /\ Len(stack) >= 1
  /\ stack[1] = 0
  /\ \A i \in 1..(Len(stack) - 1) : stack[i] < stack[i + 1]

\* C30: at every point of tokenization the indent stack is not empty, has 0
\* as its bottom entry and increases strictly from bottom to top; when
\* tokenize has returned the tokens the stack is [0].
C30_IndentStackIsIncreasing ==
  lexer # <<>> =>
    /\ \A k \in 1..Len(ScansOfSource) : IsIndentStack(ScansOfSource[k].indentStack)
    /\ IsIndentStack(lexer[1].indentStack)
    /\ tokens # <<>> => lexer[1].indentStack = <<0>>

\* Two levels were open during a tokenization that has returned
C30_Witness ==
  /\ tokens # <<>>
  /\ lexer[1].indentStack = <<0>>
  /\ \E k \in 1..Len(ScansOfSource) : ScansOfSource[k].indentStack = <<0, 4, 8>>

\* C27: parse ends on every token sequence that ends with EOF, with a
\* Program or with an EasyLangError.  Read from any token of a sequence on,
\* also from a stray INDENT, DEDENT or brace, a statement that is parsed
\* leaves the cursor further than it was and not beyond EOF, a block does not
\* move it back, and parsing the rest of the sequence returns at EOF or
\* raises an EasyLangError.
C27_EveryStatementConsumesAToken ==
  tokens # <<>> =>
    LET T == tokens[1]
    IN  /\ \A cur \in 0..(Len(T) - 2) :
             LET stmt == Ps_statement(T, cur)
             IN  IF stmt.ok THEN cur < stmt.cur /\ stmt.cur < Len(T)
                 ELSE stmt.error.thrown /\ stmt.error.type = "SyntaxError"
        /\ \A cur \in 0..(Len(T) - 1), isArrowFunction \in BOOLEAN :
             LET block == Ps_blockStatement(T, cur, isArrowFunction)
             IN  IF block.ok THEN cur <= block.cur /\ block.cur < Len(T)
                 ELSE block.error.thrown
        /\ \A cur \in 0..(Len(T) - 1) :
             LET rest == Ps_parseLoop(T, cur, <<>>)
             IN  IF rest.ok THEN rest.cur = Len(T) - 1 /\ rest.node.type = "Program"
                 ELSE rest.error.thrown /\ rest.error.type = "SyntaxError"

\* A parse that returned a Program, of tokens whose rest from a DEDENT on
\* and from an INDENT on raises an error
C27_Witness ==
  /\ ast # <<>>
  /\ ast[1].ok
  /\ \E cur \in 0..(Len(tokens[1]) - 1) :
       /\ Ps_peek(tokens[1], cur).type = "DEDENT"
       /\ ~Ps_parseLoop(tokens[1], cur, <<>>).ok
  /\ \E cur \in 0..(Len(tokens[1]) - 1) :
       /\ Ps_peek(tokens[1], cur).type = "INDENT"
       /\ ~Ps_parseLoop(tokens[1], cur, <<>>).ok

(***************************************************************************)
(* Properties of an embedding program, stated of SpecHost                  *)
(***************************************************************************)

\* The number of digits of s from index i on
DigitsFrom(s, i) == ScanDigits(s, i, 0)[2]

\* The whole text is a decimal numeral: an optional sign, digits with an
\* optional fraction (at least one digit in all), an optional exponent
IsNumberText(s) ==
  LET i1 == IF charAt(s, 0) \in {"+", "-"} THEN 1 ELSE 0
      int == DigitsFrom(s, i1)
      i2 == i1 + int
      frac == IF charAt(s, i2) = "." THEN DigitsFrom(s, i2 + 1) ELSE 0
      i3 == IF charAt(s, i2) = "." THEN i2 + 1 + frac ELSE i2
      hasE == charAt(s, i3) \in {"e", "E"}
      i4 == IF charAt(s, i3 + 1) \in {"+", "-"} THEN i3 + 2 ELSE i3 + 1
      exp == IF hasE THEN DigitsFrom(s, i4) ELSE 0
      end == IF hasE THEN i4 + exp ELSE i3
  IN  /\ int + frac > 0
      /\ hasE => exp > 0
      /\ end = Len(s)

\* C25: an input expression yields a number exactly when the whole text that
\* the input callback returned is a finite number; any other text, also one
\* that only begins with a number, is kept unchanged as a string.  Here for
\* the value that `banao x = puchho "?"` binds to x.
C25_InputIsANumberOnlyAsAWhole ==
  (host # <<>> /\ "x" \in DOMAIN host[1].envs[globals].values) =>
    LET reply == host[1].inputCallback[1]
        x == host[1].envs[globals].values["x"]
    IN  IF IsNumberText(reply) THEN x.type = "number"
        ELSE x = StringValue(reply)


====
